---- MODULE Spec2Model ----
(***************************************************************************)
(* Express-API-Server-Template: the request middleware pipeline            *)
(* (managers/route.js), the DatabaseManager (managers/database.js), the    *)
(* route handlers (routes/auth.js, routes/index.js) and the query builder  *)
(* (models/index.js, models/auth.js).                                      *)
(*                                                                         *)
(* route.js and database.js each hold two shapes of their class.  Shape 1  *)
(* is the manager-held single connection (database.js:13-145) with the     *)
(* guarded, un-awaited rollback (route.js:93-101); shape 2 is the pool     *)
(* shape that hands the connection to the request (database.js:161-268)    *)
(* with the awaited rollback (route.js:270-282).  variant selects one.     *)
(*                                                                         *)
(* An async function runs without interruption from one await to the next, *)
(* so every action below is one such stretch.  Calls to the logger write   *)
(* lines and change nothing that is modelled here.                         *)
(***************************************************************************)
EXTENDS Integers, Sequences, FiniteSets, TLC

\* ------------------------------------------------------------------ bounds
PoolSize == 2

\* builder methods called in one run of the builder
MaxCalls == 2

\* execute() calls in one run of the builder, when it is not used again
MaxExec == 1

\* calls of the DatabaseManager's methods, all callers together
MaxManagerCalls == 3

Reqs == {"A", "B"}

Conns == 1 .. PoolSize

\* request.__databaseConnection / #connection when it is undefined
NoConn == 0

\* the paths a client asks for: the five handlers of routes/auth.js, the two
\* of routes/index.js, and one path no router serves
AuthEmptyPaths == {"/auth/edit", "/auth/delete", "/auth/add"}

Paths == {"/auth/login", "/auth/list", "/index/hello", "/index/dummy", "/nope"} \cup AuthEmptyPaths

AllRouters == {"/auth", "/index"}

BasePath(p) == IF p \in {"/auth/login", "/auth/list"} \cup AuthEmptyPaths THEN "/auth" ELSE IF p \in {"/index/hello", "/index/dummy"} THEN "/index" ELSE "/nope"

VARIABLES
  variant,      \* 1 or 2: the shape of DatabaseManager and RouteManager in use
  poolOk,       \* the constructor's mysql.createPool gave a pool (database.js:45-51)
  last,         \* per caller of the DatabaseManager: the method it called last, and how that ended
  execLimit,    \* how many times the builder's caller calls execute()
  callLimit,    \* how many builder methods the builder's caller calls
  express5,     \* TRUE when the router forwards a rejected handler promise to next(err)
  routers,      \* base paths mounted by registerCustomRoutes (route.js:80-85)
  env,          \* the active environment: the config's env key (configManager.js:99)
  cm,           \* the ConfigManager: the parsed config file (#config) and how far the constructor is
  rp,           \* the RolesPermissions object: its policies, its roles, and what its last call did
  boot,         \* the startup: how far it is, the middleware stack, the imports of the route modules, the routers objects
  pc,           \* per request: where its middleware chain stands
  path,         \* per request: the path asked for
  reqConn,      \* per request: request["__databaseConnection"]
  finishHook,   \* per request: the 'finish' listener is registered (route.js:53)
  resp,         \* per request: the response sent, NoResp before
  trace,        \* per request: the lifecycle events so far, in order
  connState,    \* per connection: "free" (in the pool) or "held"
  txn,          \* per connection: "none", "open", "committed", "rolledback"
  acquiredBy,   \* per connection: the request whose acquireConnection obtained it
  nAcq,         \* how many pool.getConnection() calls have yielded a connection
  nRel,         \* how many connection.release() calls have run
  ops,          \* the driver calls made: who for, which call, on which connection
  mgrConn,      \* shape 1: DatabaseManager.#connection
  mgrReqId,     \* shape 1: DatabaseManager._currentRequestId
  query,        \* Model.query, the builder's state (index.js:68-81)
  sql,          \* Model.#sql, as the pieces it was put together from
  sent,         \* the executeQuery(sql, values) call of the last execute(): <<call>>, and <<>> once the caller has gone on to a builder method
  mpc,          \* the builder's caller: "idle" (chaining), "executing" while execute() awaits, then "resolved" or "rejected" until its next builder call
  nCalls,       \* builder methods called so far
  joinCalls,    \* the join(...) calls made on the builder since it was new or reset, in order
  nExec         \* execute() calls so far

vars == <<variant, express5, routers, env, cm, rp, boot, execLimit, callLimit, poolOk, last, pc, path, reqConn, finishHook, resp, trace, connState, txn, acquiredBy, nAcq, nRel, ops, mgrConn, mgrReqId, query, sql, sent, mpc, nCalls, joinCalls, nExec>>

builderVars == <<query, sql, sent, mpc, nCalls, joinCalls, nExec>>

reqVars == <<pc, path, reqConn, finishHook, resp, trace>>

dbVars == <<connState, txn, acquiredBy, nAcq, nRel, ops, mgrConn, mgrReqId>>

cfgVars == <<variant, express5, routers, env, cm, rp, boot, execLimit, callLimit, poolOk>>

callerVars == <<last>>

\* no call of the DatabaseManager yet.  Of a call: n, how many this caller
\* has made; the method and its argument; ended, "no" while it awaits, then
\* "returned" or "threw", with the value's kind or the error's message;
\* #connection and _currentRequestId when it was entered (conn0, id0) and
\* when it ended (conn1, id1); whether #connection was a connection held
\* from the pool when it was entered (held0); whether it called
\* pool.getConnection; the driver calls it made; the connection its
\* acquisition got; the connection its statement went to, how many times
\* the statement was sent, and what the driver said to it ("" nothing yet,
\* "ok", or the message of its rejection); the ids its log lines were
\* written under (tags).
NoCall == [n |-> 0, call |-> "none", arg |-> "none", ended |-> "no", msg |-> "", conn0 |-> NoConn, id0 |-> "none", conn1 |-> NoConn, id1 |-> "none", held0 |-> FALSE, pool |-> FALSE, driver |-> {}, got |-> NoConn, on |-> NoConn, sends |-> 0, driverSaid |-> "", tags |-> {}]

\* no response yet.  Of a response: the status, who wrote it, its body
\* (for an error envelope, the message field), and the message of the error
\* it answers
NoResp == [status |-> 0, by |-> "none", body |-> "none", err |-> ""]

\* the environments a config names with its env key; "live" and
\* "production" are the ones the error handler takes for production
\* (route.js:277-278)
Envs == {"local", "live"}

Production == {"live", "production"}

\* the .js modules of the routes directory (routes/auth.js, routes/index.js)
RouteFiles == {"auth", "index"}

\* the calls of registerCustomRoutes at startup: by #setEssentialRoutes
\* (route.js:65, 246) and by the App constructor (app.js:65)
RegisterCalls == {1, 2}

\* the startup where it is not followed: the server listens, with the
\* routers of the variable routers
BootNotFollowed == [at |-> "not followed", stack |-> <<>>, imports |-> [f \in RouteFiles |-> "none"], objects |-> [c \in RegisterCalls |-> {}]]

\* before new App()
BootNew == [at |-> "new", stack |-> <<>>, imports |-> [f \in RouteFiles |-> "none"], objects |-> [c \in RegisterCalls |-> {}]]

\* ------------------------------------------------------ the config's data
\* A JavaScript value as JSON.parse gives it, or as a member of allowedKeys:
\* its kind, the text of a string, and the own properties of an object.
NoKids == [k \in {} |-> 0]

Str(s) == [kind |-> "string", is |-> s, kids |-> NoKids]

JNum == [kind |-> "number", is |-> "", kids |-> NoKids]

JBool == [kind |-> "boolean", is |-> "", kids |-> NoKids]

JNull == [kind |-> "null", is |-> "", kids |-> NoKids]

JArray == [kind |-> "array", is |-> "", kids |-> NoKids]

Obj(kids) == [kind |-> "object", is |-> "", kids |-> kids]

\* Object.prototype, which every object literal inherits from, and its
\* constructor property
ObjectPrototype == [kind |-> "object", is |-> "Object.prototype", kids |-> NoKids]

ObjectFunction == [kind |-> "function", is |-> "Object", kids |-> NoKids]

\* typeof v
typeOf(v) == IF v.kind \in {"null", "array"} THEN "object" ELSE v.kind

\* the ConfigManager where it is not followed: constructed on a valid file
CmNotFollowed == [config |-> Obj(NoKids), at |-> "valid"]

\* --------------------------------------------- the RolesPermissions' data
\* no call made yet; of a call: the method, whether it threw, whether it
\* changed the attachments, and for canPerformAction what was asked and
\* what it returned
NoRpCall == [op |-> "none", threw |-> FALSE, changed |-> FALSE, role |-> "", action |-> "", resource |-> "", result |-> FALSE]

\* new RolesPermissions() (index.js:308-310): an empty policies map and no
\* roles map; made says whether this.roles is there, and a role's Set is
\* the sequence of its names in the order they were added
RpNew == [policies |-> [n \in {} |-> <<>>], made |-> FALSE, roles |-> [r \in {} |-> <<>>], call |-> NoRpCall]

\* ------------------------------------------------- the query builder's data
\* new Model("users", connection) (models/auth.js:6)
tableName == "users"

\* A value handed to the builder: a scalar, or a row of scalars
\* (insert(data) with an array keeps one array of values per item,
\* index.js:104).
Scalar(s) == [row |-> FALSE, v |-> <<s>>]

Row(ss) == [row |-> TRUE, v |-> ss]

NoBind == [row |-> FALSE, v |-> <<>>]

\* null, and a value that is not null (limit and offset are tested with
\* !== null, index.js:262-264)
Null == <<>>

Some(x) == <<x>>

\* what limit and offset are handed: a number (a digit string of the query
\* string reads the same in the SQL), or undefined
Num(n) == [js |-> "number", n |-> n]

Undefined == [js |-> "undefined", n |-> 0]

\* `${value}` (index.js:262, 264)
Templated(val) == IF val.js = "undefined" THEN "undefined" ELSE ToString(val.n)

\* _resetQuery (index.js:66-82): the query of a fresh builder.  A null type
\* is "null"; a null orderBy or order is "", which the code's truthiness
\* tests (index.js:164, 259-260) do not tell from null.
EmptyQuery == [type |-> "null", select |-> <<>>, columns |-> <<>>, values |-> <<>>, where |-> <<>>, whereIn |-> <<>>, joins |-> <<>>, search |-> <<>>, limit |-> Null, offset |-> Null, orderBy |-> "", order |-> ""]

\* the constructor (index.js:57-61)
ModelNew ==
  /\ query = EmptyQuery
  /\ sql = <<>>
  /\ sent = <<>>
  /\ mpc = "idle"
  /\ nCalls = 0
  /\ joinCalls = <<>>
  /\ nExec = 0

Init ==
  /\ variant \in {1, 2}
  /\ express5 \in BOOLEAN
  /\ routers \in {{}, AllRouters}
  /\ boot = BootNotFollowed
  /\ env \in Envs
  /\ cm = CmNotFollowed
  /\ rp = RpNew
  /\ execLimit = MaxExec
  /\ callLimit = MaxCalls
  /\ poolOk = TRUE
  /\ last = [r \in Reqs |-> NoCall]
  /\ pc = [r \in Reqs |-> "new"]
  /\ path = [r \in Reqs |-> "/nope"]
  /\ reqConn = [r \in Reqs |-> NoConn]
  /\ finishHook = [r \in Reqs |-> FALSE]
  /\ resp = [r \in Reqs |-> NoResp]
  /\ trace = [r \in Reqs |-> <<>>]
  /\ connState = [c \in Conns |-> "free"]
  /\ txn = [c \in Conns |-> "none"]
  /\ acquiredBy = [c \in Conns |-> "none"]
  /\ nAcq = 0
  /\ nRel = 0
  /\ ops = {}
  /\ mgrConn = NoConn
  /\ mgrReqId = "none"
  /\ ModelNew

\* ------------------------------------------------------------ small helpers
Event(r, e) == trace' = [trace EXCEPT ![r] = Append(@, e)]

Goto(r, p) == pc' = [pc EXCEPT ![r] = p]

Range(t) == {t[i] : i \in 1 .. Len(t)}

\* res.status(s).json(...) or res.send(...): the response is written
Respond(r, s, who, b) == resp' = [resp EXCEPT ![r] = [status |-> s, by |-> who, body |-> b, err |-> ""]]

\* a call of the driver on connection c, made while serving r
DriverCall(r, what, c) == ops' = ops \cup {[req |-> r, op |-> what, conn |-> c, owner |-> acquiredBy[c]]}

\* ------------------------------------------- the request middleware pipeline
\* The request preparation middleware up to its first database await
\* (route.js:42-48): the id is generated and logged, acquireConnection(id)
\* is entered (the id is a v4 uuid, never empty; shape 1 binds it to the
\* manager, database.js:59-60) and pool.getConnection() is awaited.
Receive(r) ==
  /\ pc[r] = "new"
  /\ \E p \in Paths : path' = [path EXCEPT ![r] = p]
  /\ Goto(r, "acquiring")
  /\ mgrReqId' = IF variant = 1 THEN r ELSE mgrReqId
  /\ UNCHANGED <<cfgVars, builderVars, callerVars, reqConn, finishHook, resp, trace, connState, txn, acquiredBy, nAcq, nRel, ops, mgrConn>>

\* express.json() (route.js:40, 208) cannot parse the body and calls
\* next(error): the request goes to the error middleware past the request
\* preparation middleware, with no id and no connection.
JsonReject(r) ==
  /\ pc[r] = "new"
  /\ \E p \in Paths : path' = [path EXCEPT ![r] = p]
  /\ Event(r, "json-failed")
  /\ Goto(r, "errorMW")
  /\ UNCHANGED <<cfgVars, builderVars, callerVars, reqConn, finishHook, resp, dbVars>>

\* What acquireConnection returns to its caller once the pool has yielded
\* connection c: shape 1 has no return statement (database.js:58-70), shape 2
\* returns the connection (database.js:217).
AcquireResult(c) == IF variant = 1 THEN NoConn ELSE c

\* pool.getConnection() resolves with the free connection c.  Shape 1 stores
\* it in #connection (database.js:64).  The middleware assigns the result of
\* acquireConnection to request.__databaseConnection and calls
\* beginTransaction() on it (route.js:48-49): on undefined that throws and the
\* catch calls next(error).
AcquireResolve(r, c) ==
  /\ pc[r] = "acquiring"
  /\ connState[c] = "free"
  /\ connState' = [connState EXCEPT ![c] = "held"]
  /\ acquiredBy' = [acquiredBy EXCEPT ![c] = r]
  /\ nAcq' = nAcq + 1
  /\ Event(r, "acquire")
  /\ mgrConn' = IF variant = 1 THEN c ELSE mgrConn
  /\ reqConn' = [reqConn EXCEPT ![r] = AcquireResult(c)]
  /\ Goto(r, IF AcquireResult(c) = NoConn THEN "errorMW" ELSE "beginning")
  /\ UNCHANGED <<cfgVars, builderVars, callerVars, path, finishHook, resp, txn, nRel, ops, mgrReqId>>

\* pool.getConnection() rejects (or the pool is undefined): both shapes log
\* the error and swallow it (database.js:67-69, 218-223), acquireConnection
\* returns undefined, and beginTransaction on undefined throws: next(error).
AcquireReject(r) ==
  /\ pc[r] = "acquiring"
  /\ Event(r, "acquire-failed")
  /\ Goto(r, "errorMW")
  /\ UNCHANGED <<cfgVars, builderVars, callerVars, path, reqConn, finishHook, resp, dbVars>>

\* connection.beginTransaction() resolves: the 'finish' listener is
\* registered and next() hands the request to the routers (route.js:53-64).
BeginResolve(r) ==
  /\ pc[r] = "beginning"
  /\ txn' = [txn EXCEPT ![reqConn[r]] = "open"]
  /\ DriverCall(r, "begin", reqConn[r])
  /\ Event(r, "begin")
  /\ finishHook' = [finishHook EXCEPT ![r] = TRUE]
  /\ Goto(r, "dispatch")
  /\ UNCHANGED <<cfgVars, builderVars, callerVars, path, reqConn, resp, connState, acquiredBy, nAcq, nRel, mgrConn, mgrReqId>>

\* connection.beginTransaction() rejects: return next(error) (route.js:50-52),
\* before the 'finish' listener is registered.
BeginReject(r) ==
  /\ pc[r] = "beginning"
  /\ Event(r, "begin-failed")
  /\ Goto(r, "errorMW")
  /\ UNCHANGED <<cfgVars, builderVars, callerVars, path, reqConn, finishHook, resp, dbVars>>

\* The path is served by a mounted router (route.js:80-85).
Routed(r) == pc[r] = "dispatch" /\ BasePath(path[r]) \in routers

\* Where a request goes when the promise of its async handler rejects:
\* Express 5 passes the rejection to next(err); Express 4 drops it, and
\* nothing answers the request.
AfterRejection == IF express5 THEN "errorMW" ELSE "hung"

\* POST /auth/login (auth.js:7-21) and GET /auth/list (auth.js:23-38): the
\* handler builds AuthModel on request.__databaseConnection and Model.execute
\* calls executeQuery on it (index.js:220).  The request carries a pool
\* connection, which has no executeQuery, so execute throws "Query execution
\* failed" (index.js:223-226) and the handler's catch calls next(error).
\* (/list without a search parameter fails earlier, at reduce, into the same
\* catch.)
ModelHandler(r) ==
  /\ Routed(r)
  /\ path[r] \in {"/auth/login", "/auth/list"}
  /\ trace' = [trace EXCEPT ![r] = @ \o <<"handler", "handler-error">>]
  /\ Goto(r, "errorMW")
  /\ UNCHANGED <<cfgVars, builderVars, callerVars, path, reqConn, finishHook, resp, dbVars>>

\* PATCH /auth/edit/:id, DELETE /auth/delete/:id, POST /auth/add
\* (auth.js:40-64): the try block is empty; the handler returns without a
\* response and without next().
EmptyHandler(r) ==
  /\ Routed(r)
  /\ path[r] \in AuthEmptyPaths
  /\ Event(r, "handler")
  /\ Goto(r, "hung")
  /\ UNCHANGED <<cfgVars, builderVars, callerVars, path, reqConn, finishHook, resp, dbVars>>

\* GET /index/hello (routes/index.js:2-4): res.send, no database call.
Hello(r) ==
  /\ Routed(r)
  /\ path[r] = "/index/hello"
  /\ Event(r, "handler")
  /\ Respond(r, 200, "handler", "text")
  /\ Goto(r, "responded")
  /\ UNCHANGED <<cfgVars, builderVars, callerVars, path, reqConn, finishHook, dbVars>>

\* GET /index/dummy (routes/index.js:5-9): awaits execute on the request's
\* connection, then commit, then answers.  There is no try/catch.
DummyStart(r) ==
  /\ Routed(r)
  /\ path[r] = "/index/dummy"
  /\ Event(r, "handler")
  /\ Goto(r, "dummyExec")
  /\ UNCHANGED <<cfgVars, builderVars, callerVars, path, reqConn, finishHook, resp, dbVars>>

DummyExecResolve(r) ==
  /\ pc[r] = "dummyExec"
  /\ DriverCall(r, "execute", reqConn[r])
  /\ Event(r, "query")
  /\ Goto(r, "dummyCommit")
  /\ UNCHANGED <<cfgVars, builderVars, callerVars, path, reqConn, finishHook, resp, connState, txn, acquiredBy, nAcq, nRel, mgrConn, mgrReqId>>

DummyExecReject(r) ==
  /\ pc[r] = "dummyExec"
  /\ trace' = [trace EXCEPT ![r] = @ \o <<"execute-failed", "handler-error">>]
  /\ Goto(r, AfterRejection)
  /\ UNCHANGED <<cfgVars, builderVars, callerVars, path, reqConn, finishHook, resp, dbVars>>

DummyCommitResolve(r) ==
  /\ pc[r] = "dummyCommit"
  /\ txn' = [txn EXCEPT ![reqConn[r]] = "committed"]
  /\ DriverCall(r, "commit", reqConn[r])
  /\ Event(r, "commit")
  /\ Respond(r, 200, "handler", "error:false,message")
  /\ Goto(r, "responded")
  /\ UNCHANGED <<cfgVars, builderVars, callerVars, path, reqConn, finishHook, connState, acquiredBy, nAcq, nRel, mgrConn, mgrReqId>>

DummyCommitReject(r) ==
  /\ pc[r] = "dummyCommit"
  /\ trace' = [trace EXCEPT ![r] = @ \o <<"commit-failed", "handler-error">>]
  /\ Goto(r, AfterRejection)
  /\ UNCHANGED <<cfgVars, builderVars, callerVars, path, reqConn, finishHook, resp, dbVars>>

\* The response of the last middleware (route.js:111-118).
NotFoundResponse == [status |-> 404, by |-> "notFound", body |-> "error:true,Not found.", err |-> ""]

\* No router serves the path: the error middleware is skipped (there is no
\* error) and the last middleware answers.
NotFound(r) ==
  /\ pc[r] = "dispatch"
  /\ BasePath(path[r]) \notin routers
  /\ resp' = [resp EXCEPT ![r] = NotFoundResponse]
  /\ Goto(r, "responded")
  /\ UNCHANGED <<cfgVars, builderVars, callerVars, path, reqConn, finishHook, trace, dbVars>>

\* The response of the error middleware (route.js:97-100, 274-281).
\* what the driver says when it rejects a statement
DriverMessages == {"ER_DUP_ENTRY", "ER_LOCK_DEADLOCK"}

\* the messages of the SyntaxError express.json() hands to next for a body
\* that is not JSON: they quote the body
JsonErrors == {"Unexpected token } in JSON at position 1", "Unexpected end of JSON input"}

\* the events of the error middleware itself
ErrorMWEvents == {"error", "rollback-sent", "rollback", "rollback-failed"}

\* what next(error) was called for: the last events of the trace t that are
\* not the error middleware's
Cause(t) == LET f == SelectSeq(t, LAMBDA e : e \notin ErrorMWEvents) IN SubSeq(f, IF Len(f) > 1 THEN Len(f) - 1 ELSE 1, Len(f))

\* The messages the error of a request can have.  beginTransaction on the
\* undefined that acquireConnection returned (route.js:48-49) is a
\* TypeError; a driver call that failed carries the driver's message; the
\* model handlers fail in Model.execute on a connection that has no
\* executeQuery (index.js:220-225).
ErrorsAt(t) ==
  LET c == Cause(t)
      z == c[Len(c)]
  IN  IF z = "json-failed" THEN JsonErrors
      ELSE IF z \in {"acquire", "acquire-failed"} THEN {"Cannot read properties of undefined (reading 'beginTransaction')"}
      ELSE IF z = "begin-failed" THEN DriverMessages
      ELSE IF c[1] = "handler" THEN {"Query execution failed: this.#connection.executeQuery is not a function"}
      ELSE DriverMessages

\* getConfigValue is not among the sources: taken to give the name of the
\* active environment
getConfigValue(key) == env

\* the message field of the 500 (route.js:97-100, 274-281): shape 1 gives
\* the error's message, shape 2 a fixed text in production
ErrorMessage(m) ==
  IF variant = 1 THEN m
  ELSE IF getConfigValue("") = "live" \/ getConfigValue("") = "production" THEN "Internal Server Error"
  ELSE m

\* the 500 of the error middleware for an error with message m
ErrorResponse(m) == [status |-> 500, by |-> "errorMW", body |-> ErrorMessage(m), err |-> m]

\* The promise of the async error middleware rejects.  Express 5 passes that
\* to the next error handler, of which there is none, and its final handler
\* answers 500 with an HTML page; Express 4 drops it.
ErrorMWRejected(r) ==
  IF express5
    THEN Respond(r, 500, "final", "html") /\ Goto(r, "responded")
    ELSE Goto(r, "hung") /\ UNCHANGED resp

\* The error middleware.  Shape 1 (route.js:94-101): rollback() is called
\* only when the request carries a connection, and is not awaited; the 500
\* is written in the same stretch.  Shape 2 (route.js:271-282): rollback()
\* is called on request.__databaseConnection unguarded, and awaited.
ErrorMW(r) ==
  /\ pc[r] = "errorMW"
  /\ IF variant = 1
       THEN /\ \E m \in ErrorsAt(trace[r]) : resp' = [resp EXCEPT ![r] = ErrorResponse(m)]
            /\ Goto(r, "responded")
            /\ IF reqConn[r] # NoConn
                 THEN /\ DriverCall(r, "rollback", reqConn[r])
                      /\ trace' = [trace EXCEPT ![r] = @ \o <<"error", "rollback-sent">>]
                 ELSE Event(r, "error") /\ UNCHANGED ops
       ELSE /\ Event(r, "error")
            /\ UNCHANGED ops
            /\ IF reqConn[r] = NoConn
                 THEN ErrorMWRejected(r)
                 ELSE Goto(r, "rollingBack") /\ UNCHANGED resp
  /\ UNCHANGED <<cfgVars, builderVars, callerVars, path, reqConn, finishHook, connState, txn, acquiredBy, nAcq, nRel, mgrConn, mgrReqId>>

\* Shape 2: the awaited rollback resolves and the 500 is written.
RollbackResolve(r) ==
  /\ pc[r] = "rollingBack"
  /\ txn' = [txn EXCEPT ![reqConn[r]] = "rolledback"]
  /\ DriverCall(r, "rollback", reqConn[r])
  /\ Event(r, "rollback")
  /\ \E m \in ErrorsAt(trace[r]) : resp' = [resp EXCEPT ![r] = ErrorResponse(m)]
  /\ Goto(r, "responded")
  /\ UNCHANGED <<cfgVars, builderVars, callerVars, path, reqConn, finishHook, connState, acquiredBy, nAcq, nRel, mgrConn, mgrReqId>>

\* Shape 2: the awaited rollback rejects inside the async error middleware.
RollbackReject(r) ==
  /\ pc[r] = "rollingBack"
  /\ Event(r, "rollback-failed")
  /\ ErrorMWRejected(r)
  /\ UNCHANGED <<cfgVars, builderVars, callerVars, path, reqConn, finishHook, dbVars>>

\* The listener of 'finish' releases when the request carries a connection
\* (route.js:58-62).
ReleasesOnFinish(r) == finishHook[r] /\ reqConn[r] # NoConn

\* The response's 'finish' event.  The listener exists only when the
\* middleware got past beginTransaction (route.js:53).
Finish(r) ==
  /\ pc[r] = "responded"
  /\ Goto(r, "done")
  /\ IF ReleasesOnFinish(r)
       THEN /\ connState' = [connState EXCEPT ![reqConn[r]] = "free"]
            /\ nRel' = nRel + 1
            /\ DriverCall(r, "release", reqConn[r])
            /\ Event(r, "release")
       ELSE UNCHANGED <<connState, nRel, ops, trace>>
  /\ UNCHANGED <<cfgVars, builderVars, callerVars, path, reqConn, finishHook, resp, txn, acquiredBy, nAcq, mgrConn, mgrReqId>>

Step(r) ==
  \/ Receive(r)
  \/ JsonReject(r)
  \/ \E c \in Conns : AcquireResolve(r, c)
  \/ AcquireReject(r)
  \/ BeginResolve(r)
  \/ BeginReject(r)
  \/ ModelHandler(r)
  \/ EmptyHandler(r)
  \/ Hello(r)
  \/ DummyStart(r)
  \/ DummyExecResolve(r)
  \/ DummyExecReject(r)
  \/ DummyCommitResolve(r)
  \/ DummyCommitReject(r)
  \/ NotFound(r)
  \/ ErrorMW(r)
  \/ RollbackResolve(r)
  \/ RollbackReject(r)
  \/ Finish(r)

Next == \E r \in Reqs : Step(r)

Spec == Init /\ [][Next]_vars

\* The event loop runs every continuation that is ready, and the driver
\* answers every call: a request that can take a step takes one.
SpecFair == Spec /\ \A r \in Reqs : WF_vars(Step(r))

\* ------------------------------------------------------------- the startup
RECURSIVE KeysOf(_)
\* Object.keys of a routers object holding the base paths S, in some order
KeysOf(S) == IF S = {} THEN <<>> ELSE LET x == CHOOSE y \in S : TRUE IN <<x>> \o KeysOf(S \ {x})

\* the base paths the routers object of a readRoutes call holds once the
\* modules of these imports have been imported (route.js:145-147, 322-324)
Imported(imports) == {"/" \o f : f \in {g \in RouteFiles : imports[g] = "imported"}}

\* registerCustomRoutes (route.js:75-87, 253-264) on the middleware stack,
\* the imports standing as given when readRoutes returns.  Shape 1's
\* readRoutes has no return statement (route.js:128-167): Object.keys of
\* undefined throws and nothing is added.  Shape 2's returns its routers
\* object (route.js:327): the keys it has now are mounted, then the error
\* handler and the 404 middleware are added.
registerCustomRoutes(stack, imports) ==
  IF variant = 1
    THEN stack
    ELSE stack \o KeysOf(Imported(imports)) \o <<"errorMW", "notFound">>

\* everything but routers and boot
bootFrame == <<variant, express5, env, cm, rp, execLimit, callLimit, poolOk, builderVars, callerVars, reqVars, dbVars>>

\* new App() (app.js:52-66): the RouteManager's constructor adds
\* express.json() and the request preparation middleware and calls
\* registerCustomRoutes (route.js:28-66), and the App constructor calls it
\* again.  None of this awaits, so it is one stretch; readRoutes starts one
\* import per module, and no import has resolved when it returns.
AppConstruct ==
  /\ boot.at = "new"
  /\ LET started == [f \in RouteFiles |-> "pending"]
         first == registerCustomRoutes(<<"json", "prepare">>, started)
         second == registerCustomRoutes(first, started)
     IN  /\ boot' = [boot EXCEPT !.at = "constructed", !.stack = second, !.imports = started]
         /\ routers' = {x \in Range(second) : x \in AllRouters}
  /\ UNCHANGED bootFrame

\* startTheServer (app.js:70-84)
Listen ==
  /\ boot.at = "constructed"
  /\ boot' = [boot EXCEPT !.at = "listening"]
  /\ UNCHANGED <<routers, bootFrame>>

\* await import(filePath) resolves (route.js:145-147, 322-324): the module
\* is put into the routers object of each readRoutes call
ImportResolve(f) ==
  /\ boot.at \in {"constructed", "listening"}
  /\ boot.imports[f] = "pending"
  /\ boot' = [boot EXCEPT !.imports[f] = "imported", !.objects = [c \in RegisterCalls |-> @[c] \cup {"/" \o f}]]
  /\ UNCHANGED <<routers, bootFrame>>

\* await import(filePath) rejects: shape 1 logs it (route.js:148-151), in
\* shape 2 nothing catches it
ImportReject(f) ==
  /\ boot.at \in {"constructed", "listening"}
  /\ boot.imports[f] = "pending"
  /\ boot' = [boot EXCEPT !.imports[f] = "failed"]
  /\ UNCHANGED <<routers, bootFrame>>

\* A promise was rejected and nothing handles it (shape 1: both
\* registerCustomRoutes calls; shape 2: a failed import): whether that ends
\* the process is up to the Node version and its flags.
UnhandledRejection ==
  /\ boot.at \in {"constructed", "listening"}
  /\ variant = 1 \/ \E f \in RouteFiles : boot.imports[f] = "failed"
  /\ boot' = [boot EXCEPT !.at = "crashed"]
  /\ UNCHANGED <<routers, bootFrame>>

\* A request served by the stack the startup built.  Shape 1 has installed
\* neither its error handler nor its 404 middleware (registerCustomRoutes
\* threw before them, route.js:76-86): what Express itself answers there is
\* not followed.  With no router mounted the handlers are out of reach.
Serve(r) ==
  /\ boot.at = "listening"
  /\ "errorMW" \in Range(boot.stack)
  /\ \/ Receive(r)
     \/ JsonReject(r)
     \/ \E c \in Conns : AcquireResolve(r, c)
     \/ AcquireReject(r)
     \/ BeginResolve(r)
     \/ BeginReject(r)
     \/ NotFound(r)
     \/ ErrorMW(r)
     \/ RollbackResolve(r)
     \/ RollbackReject(r)
     \/ Finish(r)

InitStartup ==
  /\ variant \in {1, 2}
  /\ express5 = FALSE
  /\ routers = {}
  /\ boot = BootNew
  /\ env = "local"
  /\ cm = CmNotFollowed
  /\ rp = RpNew
  /\ execLimit = MaxExec
  /\ callLimit = MaxCalls
  /\ poolOk = TRUE
  /\ last = [r \in Reqs |-> NoCall]
  /\ pc = [r \in Reqs |-> "new"]
  /\ path = [r \in Reqs |-> "/nope"]
  /\ reqConn = [r \in Reqs |-> NoConn]
  /\ finishHook = [r \in Reqs |-> FALSE]
  /\ resp = [r \in Reqs |-> NoResp]
  /\ trace = [r \in Reqs |-> <<>>]
  /\ connState = [c \in Conns |-> "free"]
  /\ txn = [c \in Conns |-> "none"]
  /\ acquiredBy = [c \in Conns |-> "none"]
  /\ nAcq = 0
  /\ nRel = 0
  /\ ops = {}
  /\ mgrConn = NoConn
  /\ mgrReqId = "none"
  /\ ModelNew

NextStartup ==
  \/ AppConstruct
  \/ Listen
  \/ \E f \in RouteFiles : ImportResolve(f)
  \/ \E f \in RouteFiles : ImportReject(f)
  \/ UnhandledRejection
  \/ \E r \in Reqs : Serve(r)

SpecStartup == InitStartup /\ [][NextStartup]_vars

\* ----------------------------------- DatabaseManager, shape 1, used directly
\* Model keeps a DatabaseManager and calls executeQuery on it (index.js:55-59,
\* 220).  Here every caller drives the one DatabaseManager of the process
\* (app.js:57-60) through its methods, in any order: acquireConnection,
\* beginTransaction, executeQuery, commitTransaction, rollbackTransaction,
\* release.  A method runs without interruption up to its await; last[r]
\* keeps the call caller r made last, what the manager held when it was
\* made and when it ended, and how it ended.
InitDbm ==
  /\ variant = 1
  /\ express5 = FALSE
  /\ routers = {}
  /\ boot = BootNotFollowed
  /\ env = "local"
  /\ cm = CmNotFollowed
  /\ rp = RpNew
  /\ execLimit = MaxExec
  /\ callLimit = MaxCalls
  /\ poolOk \in BOOLEAN
  /\ pc = [r \in Reqs |-> "d-idle"]
  /\ path = [r \in Reqs |-> "/nope"]
  /\ reqConn = [r \in Reqs |-> NoConn]
  /\ finishHook = [r \in Reqs |-> FALSE]
  /\ resp = [r \in Reqs |-> NoResp]
  /\ trace = [r \in Reqs |-> <<>>]
  /\ connState = [c \in Conns |-> "free"]
  /\ txn = [c \in Conns |-> "none"]
  /\ acquiredBy = [c \in Conns |-> "none"]
  /\ nAcq = 0
  /\ nRel = 0
  /\ ops = {}
  /\ mgrConn = NoConn
  /\ mgrReqId = "none"
  /\ last = [r \in Reqs |-> NoCall]
  /\ ModelNew

pipelineVars == <<cfgVars, builderVars, path, reqConn, finishHook, resp, trace>>

RECURSIVE CallsMade(_)
\* the calls the callers in S have made
CallsMade(S) == IF S = {} THEN 0 ELSE LET r == CHOOSE x \in S : TRUE IN last[r].n + CallsMade(S \ {r})

\* caller r may call a method of the manager: it awaits none
CanCallManager(r) == pc[r] = "d-idle" /\ CallsMade(Reqs) < MaxManagerCalls

\* the call what(a) is entered by caller r
Entered(r, what, a) == [NoCall EXCEPT !.n = last[r].n + 1, !.call = what, !.arg = a, !.conn0 = mgrConn, !.id0 = mgrReqId, !.held0 = (mgrConn # NoConn /\ connState[mgrConn] = "held")]

\* the call ends: it returns or throws, the manager holding c1 and i1
Ended(call, how, m, c1, i1) == [call EXCEPT !.ended = how, !.msg = m, !.conn1 = c1, !.id1 = i1]

\* this._currentRequestId || "UNKNOWN-REQUEST-ID", the id the manager's log
\* lines are written under (database.js:61, 66, 68, 84)
TagNow(id) == IF id = "none" THEN "UNKNOWN-REQUEST-ID" ELSE id

\* the call, with a log line written under the id t
Logged(call, t) == [call EXCEPT !.tags = @ \cup {t}]

\* acquireConnection that binds the id and goes to the pool without looking
\* at the id
DbmAcquireCallUnchecked(r, id) ==
  /\ CanCallManager(r)
  /\ mgrReqId' = id
  /\ Goto(r, "d-acquiring")
  /\ last' = [last EXCEPT ![r] = Logged([Entered(r, "acquireConnection", id) EXCEPT !.pool = TRUE], TagNow(id))]
  /\ UNCHANGED <<pipelineVars, connState, txn, acquiredBy, nAcq, nRel, ops, mgrConn>>

\* acquireConnection(requestId) up to the await of pool.getConnection()
\* (database.js:58-64).  With no id it throws at once; otherwise the id is
\* bound to the manager and a line is logged under it (database.js:60-61),
\* and with no pool the throw inside the try is caught and logged, and the
\* method returns (database.js:63, 67-69).
DbmAcquireCall(r, id) ==
  /\ CanCallManager(r)
  /\ IF id = "none"
       THEN /\ last' = [last EXCEPT ![r] = Ended(Entered(r, "acquireConnection", id), "threw", "Requesting for connection without request id.", mgrConn, mgrReqId)]
            /\ UNCHANGED <<pc, mgrReqId>>
       ELSE /\ mgrReqId' = id
            /\ IF poolOk
                 THEN /\ Goto(r, "d-acquiring")
                      /\ last' = [last EXCEPT ![r] = Logged([Entered(r, "acquireConnection", id) EXCEPT !.pool = TRUE], TagNow(id))]
                 ELSE /\ last' = [last EXCEPT ![r] = Ended(Logged(Entered(r, "acquireConnection", id), TagNow(id)), "returned", "", mgrConn, id)]
                      /\ UNCHANGED pc
  /\ UNCHANGED <<pipelineVars, connState, txn, acquiredBy, nAcq, nRel, ops, mgrConn>>

\* pool.getConnection() resolves with c: it becomes #connection,
\* verifyConnection() logs a line and pings it, and acquireConnection logs
\* a line, both under the id bound by now, and returns nothing
\* (database.js:64-66, 98-103).  When executeQuery began the acquisition,
\* its await of acquireConnection ends (database.js:81).
DbmAcquireResolve(r, c) ==
  /\ pc[r] \in {"d-acquiring", "d-reacquiring"}
  /\ connState[c] = "free"
  /\ connState' = [connState EXCEPT ![c] = "held"]
  /\ acquiredBy' = [acquiredBy EXCEPT ![c] = r]
  /\ nAcq' = nAcq + 1
  /\ mgrConn' = c
  /\ ops' = ops \cup {[req |-> r, op |-> "ping", conn |-> c, owner |-> r]}
  /\ IF pc[r] = "d-acquiring"
       THEN /\ Goto(r, "d-idle")
            /\ last' = [last EXCEPT ![r] = Ended(Logged([@ EXCEPT !.got = c, !.driver = @ \cup {"ping"}], TagNow(mgrReqId)), "returned", "", c, mgrReqId)]
       ELSE /\ Goto(r, "d-resuming")
            /\ last' = [last EXCEPT ![r] = Logged([@ EXCEPT !.got = c, !.driver = @ \cup {"ping"}], TagNow(mgrReqId))]
  /\ UNCHANGED <<pipelineVars, txn, nRel, mgrReqId>>

\* pool.getConnection() rejects: the catch logs it under the id bound by
\* now and acquireConnection returns normally (database.js:67-69).
DbmAcquireReject(r) ==
  /\ pc[r] \in {"d-acquiring", "d-reacquiring"}
  /\ IF pc[r] = "d-acquiring"
       THEN /\ Goto(r, "d-idle")
            /\ last' = [last EXCEPT ![r] = Ended(Logged(@, TagNow(mgrReqId)), "returned", "", mgrConn, mgrReqId)]
       ELSE /\ Goto(r, "d-resuming")
            /\ last' = [last EXCEPT ![r] = Logged(@, TagNow(mgrReqId))]
  /\ UNCHANGED <<pipelineVars, connState, txn, acquiredBy, nAcq, nRel, ops, mgrConn, mgrReqId>>

\* a call on #connection, the driver serving it: the call returns
Driven(r, what, op) ==
  /\ DriverCall(r, op, mgrConn)
  /\ last' = [last EXCEPT ![r] = Ended([Entered(r, what, "none") EXCEPT !.driver = {op}, !.on = mgrConn], "returned", "", mgrConn, IF op = "release" THEN "none" ELSE mgrReqId)]

\* a method that throws on an empty #connection does
Refused(r, what, m) == last' = [last EXCEPT ![r] = Ended(Entered(r, what, "none"), "threw", m, mgrConn, mgrReqId)]

\* beginTransaction() (database.js:113-116)
DbmBegin(r) ==
  /\ CanCallManager(r)
  /\ IF mgrConn = NoConn
       THEN Refused(r, "beginTransaction", "Can not begin transaction on empty database connection.") /\ UNCHANGED <<txn, ops>>
       ELSE Driven(r, "beginTransaction", "begin") /\ txn' = [txn EXCEPT ![mgrConn] = "open"]
  /\ UNCHANGED <<pipelineVars, pc, connState, acquiredBy, nAcq, nRel, mgrConn, mgrReqId>>

\* commitTransaction() (database.js:122-125)
DbmCommit(r) ==
  /\ CanCallManager(r)
  /\ IF mgrConn = NoConn
       THEN Refused(r, "commitTransaction", "Can not commit transaction on empty database connection.") /\ UNCHANGED <<txn, ops>>
       ELSE Driven(r, "commitTransaction", "commit") /\ txn' = [txn EXCEPT ![mgrConn] = "committed"]
  /\ UNCHANGED <<pipelineVars, pc, connState, acquiredBy, nAcq, nRel, mgrConn, mgrReqId>>

\* rollbackTransaction() (database.js:131-134)
DbmRollback(r) ==
  /\ CanCallManager(r)
  /\ IF mgrConn = NoConn
       THEN Refused(r, "rollbackTransaction", "Can not rollback transaction on empty database connection.") /\ UNCHANGED <<txn, ops>>
       ELSE Driven(r, "rollbackTransaction", "rollback") /\ txn' = [txn EXCEPT ![mgrConn] = "rolledback"]
  /\ UNCHANGED <<pipelineVars, pc, connState, acquiredBy, nAcq, nRel, mgrConn, mgrReqId>>

\* release() (database.js:140-144): the bound id is cleared and #connection
\* goes back to the pool; #connection itself is left as it is.
DbmRelease(r) ==
  /\ CanCallManager(r)
  /\ IF mgrConn = NoConn
       THEN Refused(r, "release", "Can not release connection on empty database connection.") /\ UNCHANGED <<connState, nRel, ops, mgrReqId>>
       ELSE /\ Driven(r, "release", "release")
            /\ mgrReqId' = "none"
            /\ connState' = [connState EXCEPT ![mgrConn] = "free"]
            /\ nRel' = nRel + 1
  /\ UNCHANGED <<pipelineVars, pc, txn, acquiredBy, nAcq, mgrConn>>

\* executeQuery(sql, values) up to its first await (database.js:79-82).
\* With no #connection it awaits acquireConnection under the bound id or
\* "UNKNOWN-REQUEST-ID", which runs up to pool.getConnection(), or returns
\* at once when there is no pool; otherwise the statement goes to
\* #connection.
DbmQuery(r) ==
  /\ CanCallManager(r)
  /\ IF mgrConn = NoConn
       THEN /\ mgrReqId' = IF mgrReqId = "none" THEN "UNKNOWN-REQUEST-ID" ELSE mgrReqId
            /\ Goto(r, IF poolOk THEN "d-reacquiring" ELSE "d-resuming")
            /\ last' = [last EXCEPT ![r] = Logged([Entered(r, "executeQuery", "none") EXCEPT !.pool = poolOk], TagNow(mgrReqId))]
            /\ UNCHANGED ops
       ELSE /\ DriverCall(r, "execute", mgrConn)
            /\ Goto(r, "d-executing")
            /\ last' = [last EXCEPT ![r] = [Entered(r, "executeQuery", "none") EXCEPT !.driver = {"execute"}, !.on = mgrConn, !.sends = 1]]
            /\ UNCHANGED mgrReqId
  /\ UNCHANGED <<pipelineVars, connState, txn, acquiredBy, nAcq, nRel, mgrConn>>

\* executeQuery after its await of acquireConnection (database.js:82): the
\* statement goes to whatever #connection holds by now; on an empty one the
\* call throws a TypeError, which the catch logs and rethrows
\* (database.js:83-86).
DbmQueryResume(r) ==
  /\ pc[r] = "d-resuming"
  /\ IF mgrConn = NoConn
       THEN /\ Goto(r, "d-idle")
            /\ last' = [last EXCEPT ![r] = Ended(Logged(@, TagNow(mgrReqId)), "threw", "Cannot read properties of undefined (reading 'execute')", mgrConn, mgrReqId)]
            /\ UNCHANGED ops
       ELSE /\ DriverCall(r, "execute", mgrConn)
            /\ Goto(r, "d-executing")
            /\ last' = [last EXCEPT ![r] = [@ EXCEPT !.driver = @ \cup {"execute"}, !.on = mgrConn, !.sends = @ + 1]]
  /\ UNCHANGED <<pipelineVars, connState, txn, acquiredBy, nAcq, nRel, mgrConn, mgrReqId>>

\* the driver serves the statement: its rows are returned (database.js:82)
DbmQueryResolve(r) ==
  /\ pc[r] = "d-executing"
  /\ Goto(r, "d-idle")
  /\ last' = [last EXCEPT ![r] = Ended([@ EXCEPT !.driverSaid = "ok"], "returned", "rows", mgrConn, mgrReqId)]
  /\ UNCHANGED <<pipelineVars, connState, txn, acquiredBy, nAcq, nRel, ops, mgrConn, mgrReqId>>

\* the driver rejects the statement: the catch logs the error and throws it
\* on (database.js:83-86)
DbmQueryReject(r) ==
  /\ pc[r] = "d-executing"
  /\ Goto(r, "d-idle")
  /\ \E m \in DriverMessages : last' = [last EXCEPT ![r] = Ended(Logged([@ EXCEPT !.driverSaid = m], TagNow(mgrReqId)), "threw", m, mgrConn, mgrReqId)]
  /\ UNCHANGED <<pipelineVars, connState, txn, acquiredBy, nAcq, nRel, ops, mgrConn, mgrReqId>>

NextDbm ==
  \E r \in Reqs :
    \/ \E id \in {r, "none"} : DbmAcquireCall(r, id)
    \/ \E c \in Conns : DbmAcquireResolve(r, c)
    \/ DbmAcquireReject(r)
    \/ DbmBegin(r)
    \/ DbmQuery(r)
    \/ DbmQueryResume(r)
    \/ DbmQueryResolve(r)
    \/ DbmQueryReject(r)
    \/ DbmCommit(r)
    \/ DbmRollback(r)
    \/ DbmRelease(r)

SpecDbm == InitDbm /\ [][NextDbm]_vars

\* C2: every driver call made for a request lands on a connection that this
\* request's own acquisition obtained, never on one obtained for another
\* request.
C2_OwnConnectionOnly == \A o \in ops : o.owner = o.req

\* ------------------------------------------------------ the query builder
\* Model of models/index.js, as pure functions of the builder's query, one
\* per method, and the actions that call them.  An object is the sequence
\* of its entries [k, v] in key order.
Values == {"a", "b"}

Entry(key, val) == [k |-> key, v |-> val]

Keys(m) == [i \in 1 .. Len(m) |-> m[i].k]

Vals(m) == [i \in 1 .. Len(m) |-> Scalar(m[i].v)]

\* one entry of a spread: a key already there keeps its place and takes the
\* new value, a new key goes last
Put(m, e) == IF \E i \in 1 .. Len(m) : m[i].k = e.k THEN [i \in 1 .. Len(m) |-> IF m[i].k = e.k THEN e ELSE m[i]] ELSE Append(m, e)

RECURSIVE Spread(_, _)
\* { ...m, ...c } (index.js:130, 183)
Spread(m, c) == IF c = <<>> THEN m ELSE Spread(Put(m, Head(c)), Tail(c))

RECURSIVE JoinStr(_, _)
\* Array.prototype.join on strings
JoinStr(ss, sep) == IF ss = <<>> THEN "" ELSE IF Len(ss) = 1 THEN ss[1] ELSE ss[1] \o sep \o JoinStr(Tail(ss), sep)

\* String(value): a row is an array and reads as its items joined by ","
ToStr(val) == IF val.row THEN JoinStr(val.v, ",") ELSE JoinStr(val.v, "")

Qualify(table, columns) == [i \in 1 .. Len(columns) |-> table \o "." \o columns[i]]

\* select(columns = ['*']) (index.js:89-93)
select(q, columns) == [q EXCEPT !.type = "select", !.select = Append(@, JoinStr(Qualify(tableName, columns), ", "))]

\* insert(data) (index.js:100-110); on data that is neither an array nor an
\* object it throws after the type is set
insert(q, data) ==
  IF data.kind = "array"
    THEN [q EXCEPT !.type = "insert", !.columns = Keys(data.items[1]), !.values = [i \in 1 .. Len(data.items) |-> Row([j \in 1 .. Len(data.items[i]) |-> data.items[i][j].v])]]
    ELSE IF data.kind = "object"
      THEN [q EXCEPT !.type = "insert", !.columns = Keys(data.items[1]), !.values = Vals(data.items[1])]
      ELSE [q EXCEPT !.type = "insert"]

\* update(data) (index.js:117-122)
update(q, data) == [q EXCEPT !.type = "update", !.columns = Keys(data), !.values = Vals(data)]

\* a where that keeps only the conditions of its last call
whereReplacing(q, conditions) == [q EXCEPT !.where = conditions]

\* where(conditions) (index.js:129-132)
where(q, conditions) == [q EXCEPT !.where = Spread(@, conditions)]

\* whereIn(column, values) (index.js:139-142)
whereIn(q, column, values) == [q EXCEPT !.whereIn = Append(@, [column |-> column, values |-> values])]

\* join(type, table, conditions, columns = ['*']) (index.js:151-157): it
\* acts only when called with four arguments
join(q, argc, type, table, conditions, columns) ==
  IF argc = 4
    THEN [q EXCEPT !.joins = Append(@, [type |-> type, table |-> table, conditions |-> conditions]), !.select = Append(@, JoinStr(Qualify(table, columns), ", "))]
    ELSE q

\* sr() (index.js:163-166)
sr(q) == [q EXCEPT !.select = Append(@, "ROW_NUMBER() OVER (ORDER BY " \o (IF q.orderBy # "" THEN q.orderBy ELSE "created_at") \o " " \o (IF q.order # "" THEN q.order ELSE "DESC") \o ") AS sr")]

\* total() (index.js:172-175)
total(q) == [q EXCEPT !.select = Append(@, "COUNT(*) OVER() AS total")]

\* search(conditions) (index.js:182-185)
search(q, conditions) == [q EXCEPT !.search = Spread(@, conditions)]

\* orderBy(column = 'created_at', order = 'DESC') (index.js:187-191)
orderBy(q, column, order) == [q EXCEPT !.orderBy = column, !.order = order]

\* limit(limit) (index.js:197-200)
limit(q, n) == [q EXCEPT !.limit = Some(n)]

\* offset(offset) (index.js:207-210)
offset(q, n) == [q EXCEPT !.offset = Some(n)]

\* The SQL text is kept as the pieces it is put together from: a piece of
\* literal text, or one "?" placeholder together with the value the clause
\* that wrote it stands for.
Lit(s) == [txt |-> s, bind |-> NoBind]

Ph(val) == [txt |-> "?", bind |-> val]

\* the string the pieces make
Text(ps) == JoinStr([i \in 1 .. Len(ps) |-> ps[i].txt], "")

RECURSIVE JoinPieces(_, _)
\* Array.prototype.join on runs of pieces
JoinPieces(pss, sep) ==
  IF pss = <<>> THEN <<>>
  ELSE IF Len(pss) = 1 THEN pss[1]
  ELSE pss[1] \o (IF sep = "" THEN <<>> ELSE <<Lit(sep)>>) \o JoinPieces(Tail(pss), sep)

RECURSIVE Flat(_)
\* Array.prototype.flat
Flat(xss) == IF xss = <<>> THEN <<>> ELSE Head(xss) \o Flat(Tail(xss))

\* the where clause with its terms joined by OR
WhereClauseJoinedByOr(q) ==
  IF Len(q.where) > 0
    THEN <<Lit(" WHERE ")>> \o JoinPieces([i \in 1 .. Len(q.where) |-> <<Lit(tableName \o "." \o q.where[i].k \o " = "), Ph(Scalar(q.where[i].v))>>], " OR ")
    ELSE <<>>

\* " WHERE table.key = ? AND ..." (index.js:241-244, 278-281)
WhereClause(q) ==
  IF Len(q.where) > 0
    THEN <<Lit(" WHERE ")>> \o JoinPieces([i \in 1 .. Len(q.where) |-> <<Lit(tableName \o "." \o q.where[i].k \o " = "), Ph(Scalar(q.where[i].v))>>], " AND ")
    ELSE <<>>

\* one "column IN (?, ...)" (index.js:249, 286)
InList(w) == <<Lit(w.column \o " IN (")>> \o JoinPieces([j \in 1 .. Len(w.values) |-> <<Ph(Scalar(w.values[j]))>>], ", ") \o <<Lit(")")>>

\* the whereIn clause (index.js:247-251, 284-288): the mapped array is added
\* to the string as it is, so its items are joined by ","
WhereInClause(q) ==
  IF Len(q.whereIn) > 0
    THEN <<Lit(IF Len(q.where) > 0 THEN " AND " ELSE " WHERE ")>> \o JoinPieces([i \in 1 .. Len(q.whereIn) |-> InList(q.whereIn[i])], ",")
    ELSE <<>>

\* the search clause (index.js:254-257)
SearchClause(q) ==
  IF Len(q.search) > 0
    THEN <<Lit(IF Len(q.where) > 0 \/ Len(q.whereIn) > 0 THEN " AND " ELSE " WHERE ")>> \o JoinPieces([i \in 1 .. Len(q.search) |-> <<Lit(tableName \o "." \o q.search[i].k \o " LIKE "), Ph(Scalar(q.search[i].v))>>], " AND ")
    ELSE <<>>

\* the values the where and whereIn clauses add to query.values
\* (index.js:243, 250, 280, 287)
ClauseValues(q) == Vals(q.where) \o Flat([i \in 1 .. Len(q.whereIn) |-> [j \in 1 .. Len(q.whereIn[i].values) |-> Scalar(q.whereIn[i].values[j])]])

\* " LIMIT n" (index.js:262, 290)
LimitClause(q) == IF q.limit # Null THEN <<Lit(" LIMIT " \o Templated(q.limit[1]))>> ELSE <<>>

\* the select case (index.js:236-265); #sql is assigned
SelectSql(q) ==
  <<Lit("SELECT " \o JoinStr(q.select, ", ") \o " FROM " \o tableName)>>
  \o JoinPieces([i \in 1 .. Len(q.joins) |-> <<Lit(" " \o q.joins[i].type \o " JOIN " \o q.joins[i].table \o " ON " \o q.joins[i].conditions)>>], "")
  \o WhereClause(q)
  \o WhereInClause(q)
  \o SearchClause(q)
  \o (IF q.orderBy # "" THEN <<Lit(" ORDER BY " \o q.orderBy)>> ELSE <<>>)
  \o (IF q.order # "" THEN <<Lit(" " \o q.order)>> ELSE <<>>)
  \o LimitClause(q)
  \o (IF q.offset # Null THEN <<Lit(" OFFSET " \o Templated(q.offset[1]))>> ELSE <<>>)

\* query.values cut into chunks of columns.length (index.js:267-272).  With
\* no columns the chunk index is NaN or Infinity, which names no item of
\* the array: there is no chunk.
Chunks(q) ==
  LET n == Len(q.columns)
      m == IF n = 0 THEN 0 ELSE (Len(q.values) + n - 1) \div n
  IN  [c \in 1 .. m |-> SubSeq(q.values, (c - 1) * n + 1, IF c * n < Len(q.values) THEN c * n ELSE Len(q.values))]

\* val (index.js:267-272): each chunk as ('v','v'), the chunks joined by ''
InsertValues(q) == JoinStr([c \in 1 .. Len(Chunks(q)) |-> "('" \o JoinStr([j \in 1 .. Len(Chunks(q)[c]) |-> ToStr(Chunks(q)[c][j])], "','") \o "')"], "")

\* the insert case (index.js:266-274): the values are written into the
\* text; added to #sql.  The VALUES list is kept as a piece of its own.
InsertSql(q) == <<Lit("INSERT INTO " \o tableName \o " (" \o JoinStr(q.columns, ", ") \o ") VALUES "), Lit(InsertValues(q))>>

\* the update case (index.js:275-292); added to #sql.  The value a SET
\* placeholder stands for is the one update(data) stored for its column.
UpdateSql(q) ==
  <<Lit("UPDATE " \o tableName \o " SET ")>>
  \o JoinPieces([i \in 1 .. Len(q.columns) |-> <<Lit(q.columns[i] \o " = "), Ph(IF i <= Len(q.values) THEN q.values[i] ELSE NoBind)>>], ", ")
  \o WhereClause(q)
  \o WhereInClause(q)
  \o LimitClause(q)

\* _prepareSelectQueryString (index.js:234-295): the new #sql and query
_prepareSelectQueryString(q, s) ==
  IF q.type = "select"
    THEN [sql |-> SelectSql(q) \o <<Lit(";")>>, query |-> [q EXCEPT !.values = @ \o ClauseValues(q)]]
  ELSE IF q.type = "insert"
    THEN [sql |-> s \o InsertSql(q) \o <<Lit(";")>>, query |-> q]
  ELSE IF q.type = "update"
    THEN [sql |-> s \o UpdateSql(q) \o <<Lit(";")>>, query |-> [q EXCEPT !.values = @ \o ClauseValues(q)]]
  ELSE [sql |-> s \o <<Lit(";")>>, query |-> q]

\* what the callers hand to the builder
SelectInputs == {<<"*">>, <<"id", "username">>}

WhereInputs == {<<Entry("username", "a")>>, <<Entry("auth_token", "b")>>, <<Entry("username", "b"), Entry("auth_token", "a")>>}

WhereInInputs == {[column |-> "id", values |-> <<"a">>], [column |-> "role", values |-> <<"a", "b">>]}

SearchInputs == {<<Entry("username", "a"), Entry("email", "b")>>}

JoinInputs == {[argc |-> n, type |-> "LEFT", table |-> "roles", conditions |-> "users.role_id = roles.id", columns |-> IF n = 4 THEN <<"name">> ELSE <<"*">>] : n \in {3, 4}}

OrderByInputs == {[column |-> "username", order |-> "ASC"]}

LimitInputs == {Num(1)}

OffsetInputs == {Num(0)}

InsertInputs == {[kind |-> "object", items |-> <<<<Entry("username", "a"), Entry("auth_token", "b")>>>>], [kind |-> "array", items |-> <<<<Entry("username", "a"), Entry("auth_token", "b")>>, <<Entry("username", "b"), Entry("auth_token", "a")>>>>], [kind |-> "string", items |-> <<>>]}

UpdateInputs == {<<Entry("auth_token", "b")>>}

serverVars == <<cfgVars, reqVars, dbVars, callerVars>>

\* a builder method may be called: no execute() is awaited
CanCall == mpc # "executing" /\ nCalls < callLimit

\* a builder method was called and returned this: the chain goes on
Called ==
  /\ nCalls' = nCalls + 1
  /\ mpc' = "idle"
  /\ sent' = <<>>
  /\ UNCHANGED <<serverVars, sql, nExec>>

Select ==
  /\ CanCall
  /\ \E columns \in SelectInputs : query' = select(query, columns)
  /\ Called
  /\ UNCHANGED joinCalls

Insert ==
  /\ CanCall
  /\ \E data \in InsertInputs : query' = insert(query, data)
  /\ Called
  /\ UNCHANGED joinCalls

Update ==
  /\ CanCall
  /\ \E data \in UpdateInputs : query' = update(query, data)
  /\ Called
  /\ UNCHANGED joinCalls

Where ==
  /\ CanCall
  /\ \E conditions \in WhereInputs : query' = where(query, conditions)
  /\ Called
  /\ UNCHANGED joinCalls

WhereIn ==
  /\ CanCall
  /\ \E w \in WhereInInputs : query' = whereIn(query, w.column, w.values)
  /\ Called
  /\ UNCHANGED joinCalls

Join ==
  /\ CanCall
  /\ \E j \in JoinInputs :
       /\ query' = join(query, j.argc, j.type, j.table, j.conditions, j.columns)
       /\ joinCalls' = Append(joinCalls, j)
  /\ Called

Sr ==
  /\ CanCall
  /\ query' = sr(query)
  /\ Called
  /\ UNCHANGED joinCalls

Total ==
  /\ CanCall
  /\ query' = total(query)
  /\ Called
  /\ UNCHANGED joinCalls

Search ==
  /\ CanCall
  /\ \E conditions \in SearchInputs : query' = search(query, conditions)
  /\ Called
  /\ UNCHANGED joinCalls

OrderBy ==
  /\ CanCall
  /\ \E o \in OrderByInputs : query' = orderBy(query, o.column, o.order)
  /\ Called
  /\ UNCHANGED joinCalls

Limit ==
  /\ CanCall
  /\ \E n \in LimitInputs : query' = limit(query, n)
  /\ Called
  /\ UNCHANGED joinCalls

Offset ==
  /\ CanCall
  /\ \E n \in OffsetInputs : query' = offset(query, n)
  /\ Called
  /\ UNCHANGED joinCalls

\* The SQL is prepared from the query q and executeQuery(#sql,
\* query.values) is called (index.js:219-220).  The entry of sent keeps the
\* call's arguments, and with them the query they were prepared from, who
\* called (execute() itself, or login), with what, and whether the builder
\* was fresh, as _resetQuery leaves it, when that caller was entered; and,
\* when execute() follows an execute() with no builder call in between,
\* how that one ended and the SQL it sent.
Sent(q, who, args) ==
  LET p == _prepareSelectQueryString(q, sql)
  IN  /\ sql' = p.sql
      /\ query' = p.query
      /\ sent' = <<[sql |-> p.sql, values |-> p.query.values, built |-> q, by |-> who, args |-> args, fresh |-> (query = EmptyQuery /\ sql = <<>>), after |-> IF who = "execute" THEN mpc ELSE "idle", prior |-> IF who = "execute" /\ sent # <<>> THEN sent[1].sql ELSE <<>>, answer |-> "", thrown |-> ""]>>

\* execute() up to its await (index.js:216-220)
Execute ==
  /\ mpc # "executing"
  /\ nExec < execLimit
  /\ Sent(query, "execute", <<>>)
  /\ mpc' = "executing"
  /\ nExec' = nExec + 1
  /\ UNCHANGED <<serverVars, nCalls, joinCalls>>

\* AuthModel.login(username, password) up to the await in execute()
\* (models/auth.js:8-10), on the one Model the AuthModel keeps
Login ==
  /\ mpc # "executing"
  /\ nExec < execLimit
  /\ \E username \in Values, password \in Values : Sent(limit(where(select(query, <<"*">>), <<Entry("username", username), Entry("auth_token", password)>>), Num(1)), "login", <<username, password>>)
  /\ mpc' = "executing"
  /\ nExec' = nExec + 1
  /\ UNCHANGED <<serverVars, nCalls, joinCalls>>

\* what GET /list hands to getAll (routes/auth.js:25-32): the search object
\* made of the search parameter, and the limit and offset parameters, which
\* are undefined when the query string has none
GetAllSearchInputs == {<<Entry("username", "a")>>}

\* limit and offset: neither given, or both
GetAllPageInputs == {[limit |-> Undefined, offset |-> Undefined], [limit |-> Num(1), offset |-> Num(0)]}

\* AuthModel.getAll(searchTerm, limit, offset) up to the await in execute()
\* (models/auth.js:12-14), on the one Model the AuthModel keeps
GetAll ==
  /\ mpc # "executing"
  /\ nExec < execLimit
  /\ \E searchTerm \in GetAllSearchInputs, page \in GetAllPageInputs :
       Sent(offset(limit(search(sr(select(query, <<"*">>)), searchTerm), page.limit), page.offset), "getAll", <<>>)
  /\ mpc' = "executing"
  /\ nExec' = nExec + 1
  /\ UNCHANGED <<serverVars, nCalls, joinCalls>>

\* executeQuery resolved (index.js:221-222): the builder is reset
ExecuteResolve ==
  /\ mpc = "executing"
  /\ mpc' = "resolved"
  /\ query' = EmptyQuery
  /\ sql' = <<>>
  /\ sent' = <<[sent[1] EXCEPT !.answer = "rows"]>>
  /\ joinCalls' = <<>>
  /\ UNCHANGED <<serverVars, nCalls, nExec>>

\* the Error execute() throws for an error with message m (index.js:225)
ExecuteError(m) == "Query execution failed: " \o m

\* execute() that answers a rejection by sending the statement again
ExecuteRejectRetries ==
  /\ mpc = "executing"
  /\ Len(sent) = 1
  /\ \E m \in DriverMessages : sent' = <<[sent[1] EXCEPT !.answer = m], sent[1]>>
  /\ UNCHANGED <<serverVars, query, sql, mpc, nCalls, joinCalls, nExec>>

\* executeQuery rejected with the driver's error, which the manager throws
\* on as it is (database.js:83-86); execute() throws a new Error made of its
\* message (index.js:223-226), the builder keeps its query and its SQL
ExecuteReject ==
  /\ mpc = "executing"
  /\ mpc' = "rejected"
  /\ \E m \in DriverMessages : sent' = <<[sent[1] EXCEPT !.answer = m, !.thrown = ExecuteError(m)]>>
  /\ UNCHANGED <<serverVars, query, sql, nCalls, joinCalls, nExec>>

InitBuilder ==
  /\ variant = 1
  /\ express5 = FALSE
  /\ routers = {}
  /\ boot = BootNotFollowed
  /\ env = "local"
  /\ cm = CmNotFollowed
  /\ rp = RpNew
  /\ execLimit = MaxExec
  /\ callLimit = MaxCalls
  /\ poolOk = TRUE
  /\ last = [r \in Reqs |-> NoCall]
  /\ pc = [r \in Reqs |-> "new"]
  /\ path = [r \in Reqs |-> "/nope"]
  /\ reqConn = [r \in Reqs |-> NoConn]
  /\ finishHook = [r \in Reqs |-> FALSE]
  /\ resp = [r \in Reqs |-> NoResp]
  /\ trace = [r \in Reqs |-> <<>>]
  /\ connState = [c \in Conns |-> "free"]
  /\ txn = [c \in Conns |-> "none"]
  /\ acquiredBy = [c \in Conns |-> "none"]
  /\ nAcq = 0
  /\ nRel = 0
  /\ ops = {}
  /\ mgrConn = NoConn
  /\ mgrReqId = "none"
  /\ ModelNew

NextBuilder ==
  \/ Select
  \/ Insert
  \/ Update
  \/ Where
  \/ WhereIn
  \/ Join
  \/ Sr
  \/ Total
  \/ Search
  \/ OrderBy
  \/ Limit
  \/ Offset
  \/ Execute
  \/ Login
  \/ ExecuteResolve
  \/ ExecuteReject

SpecBuilder == InitBuilder /\ [][NextBuilder]_vars

\* The builder whose caller calls execute() once more: the Model of an
\* AuthModel serves one login after another (models/auth.js:4-10), each
\* ending in execute().
InitReuse ==
  /\ variant = 1
  /\ routers = {}
  /\ boot = BootNotFollowed
  /\ env = "local"
  /\ cm = CmNotFollowed
  /\ rp = RpNew
  /\ execLimit = MaxExec + 1
  /\ callLimit = MaxCalls
  /\ poolOk = TRUE
  /\ last = [r \in Reqs |-> NoCall]
  /\ express5 = FALSE
  /\ pc = [r \in Reqs |-> "new"]
  /\ path = [r \in Reqs |-> "/nope"]
  /\ reqConn = [r \in Reqs |-> NoConn]
  /\ finishHook = [r \in Reqs |-> FALSE]
  /\ resp = [r \in Reqs |-> NoResp]
  /\ trace = [r \in Reqs |-> <<>>]
  /\ connState = [c \in Conns |-> "free"]
  /\ txn = [c \in Conns |-> "none"]
  /\ acquiredBy = [c \in Conns |-> "none"]
  /\ nAcq = 0
  /\ nRel = 0
  /\ ops = {}
  /\ mgrConn = NoConn
  /\ mgrReqId = "none"
  /\ ModelNew

SpecReuse == InitReuse /\ [][NextBuilder]_vars

\* a caller that chains one builder method more before its execute()
InitChain ==
  /\ variant = 1
  /\ routers = {}
  /\ boot = BootNotFollowed
  /\ env = "local"
  /\ cm = CmNotFollowed
  /\ rp = RpNew
  /\ execLimit = MaxExec
  /\ callLimit = MaxCalls + 1
  /\ poolOk = TRUE
  /\ last = [r \in Reqs |-> NoCall]
  /\ express5 = FALSE
  /\ pc = [r \in Reqs |-> "new"]
  /\ path = [r \in Reqs |-> "/nope"]
  /\ reqConn = [r \in Reqs |-> NoConn]
  /\ finishHook = [r \in Reqs |-> FALSE]
  /\ resp = [r \in Reqs |-> NoResp]
  /\ trace = [r \in Reqs |-> <<>>]
  /\ connState = [c \in Conns |-> "free"]
  /\ txn = [c \in Conns |-> "none"]
  /\ acquiredBy = [c \in Conns |-> "none"]
  /\ nAcq = 0
  /\ nRel = 0
  /\ ops = {}
  /\ mgrConn = NoConn
  /\ mgrReqId = "none"
  /\ ModelNew

SpecChain == InitChain /\ [][NextBuilder]_vars

\* the builder, its AuthModel serving GET /list as well
NextList == NextBuilder \/ GetAll

SpecList == InitBuilder /\ [][NextList]_vars

\* ------------------------------------------------------ the ConfigManager
\* the schema the constructor validates against (configManager.js:26-46)
allowedKeys ==
  Obj([env |-> Str("string"),
       local |-> Obj([host |-> Str("string"),
                      url |-> Str("string"),
                      port |-> Str("number"),
                      database |-> Obj([host |-> Str("string"),
                                        user |-> Str("string"),
                                        password |-> Str("string"),
                                        database |-> Str("string"),
                                        port |-> Str("number"),
                                        waitForConnections |-> Str("boolean"),
                                        connectionLimit |-> Str("number"),
                                        queueLimit |-> Str("number")]),
                      log |-> Obj([directory |-> Str("string")])])])

\* the keys `for (const key in config)` goes through: the own properties
\* of an object, none for null
ForIn(config) == IF config.kind = "object" THEN DOMAIN config.kids ELSE {}

\* `key in allowed`: own properties and the ones inherited from
\* Object.prototype
In(key, allowed) == key \in DOMAIN allowed.kids \/ key \in {"__proto__", "constructor"}

\* allowed[key]
Get(allowed, key) ==
  IF key \in DOMAIN allowed.kids THEN allowed.kids[key]
  ELSE IF key = "constructor" THEN ObjectFunction
  ELSE IF allowed = ObjectPrototype THEN JNull
  ELSE ObjectPrototype

\* expectedType !== actualType, actualType being the name of a type
StrictlyUnequal(expectedType, actualType) == ~(expectedType.kind = "string" /\ expectedType.is = actualType)

\* validateConfig(config, allowedKeys, path) (configManager.js:73-91): TRUE
\* when it returns, FALSE when it throws (the InvalidConfigError of line 78
\* or 88, or the TypeError of `key in null`)
RECURSIVE validateConfig(_, _)
validateConfig(config, allowed) ==
  \A key \in ForIn(config) :
    /\ allowed.kind # "null"
    /\ In(key, allowed)
    /\ LET expectedType == Get(allowed, key)
           actualValue == config.kids[key]
           actualType == IF actualValue.kind = "array" THEN "array" ELSE typeOf(actualValue)
       IN  IF typeOf(expectedType) = "object" /\ actualType = "object"
             THEN validateConfig(actualValue, expectedType)
             ELSE ~StrictlyUnequal(expectedType, actualType)

\* a config file that follows the schema in full
BaseConfig ==
  Obj([env |-> Str("local"),
       local |-> Obj([host |-> Str("localhost"),
                      url |-> Str("http://localhost"),
                      port |-> JNum,
                      database |-> Obj([host |-> Str("localhost"),
                                        user |-> Str("root"),
                                        password |-> Str(""),
                                        database |-> Str("app"),
                                        port |-> JNum,
                                        waitForConnections |-> JBool,
                                        connectionLimit |-> JNum,
                                        queueLimit |-> JNum]),
                      log |-> Obj([directory |-> Str("logs")])])])

\* the config v with x at the path p, the key made if it is not there
RECURSIVE WithAt(_, _, _)
WithAt(v, p, x) ==
  IF p = <<>> THEN x
  ELSE LET k == Head(p)
           old == IF k \in DOMAIN v.kids THEN v.kids[k] ELSE Obj(NoKids)
       IN  Obj([j \in DOMAIN v.kids \cup {k} |-> IF j = k THEN WithAt(old, Tail(p), x) ELSE v.kids[j]])

\* the places of a config file: those of the schema, and at each of its
\* objects three keys the schema does not have
ObjectPlaces == {<<>>, <<"local">>, <<"local", "database">>, <<"local", "log">>}

SchemaPlaces ==
  {<<"env">>, <<"local">>, <<"local", "host">>, <<"local", "url">>, <<"local", "port">>,
   <<"local", "database">>, <<"local", "log">>, <<"local", "log", "directory">>}
  \cup {<<"local", "database", k>> : k \in DOMAIN allowedKeys.kids["local"].kids["database"].kids}

Places == SchemaPlaces \cup {p \o <<k>> : p \in ObjectPlaces, k \in {"extra", "__proto__", "constructor"}}

\* what a JSON file can hold at a place
JsonValues == {Str("x"), JNum, JBool, JNull, JArray, Obj(NoKids), Obj([extra |-> Str("x")])}

\* the config files read: the full one with one place changed
Configs == {WithAt(BaseConfig, p, x) : p \in Places, x \in JsonValues}

restOfConfig == <<variant, express5, routers, env, rp, boot, execLimit, callLimit, poolOk, builderVars, callerVars, reqVars, dbVars>>

\* new ConfigManager(path): the file is parsed, then validated (lines 25, 47)
ConfigConstruct ==
  /\ cm.at = "new"
  /\ cm' = [cm EXCEPT !.at = IF validateConfig(cm.config, allowedKeys) THEN "valid" ELSE "thrown"]
  /\ UNCHANGED restOfConfig

InitConfig ==
  /\ variant = 1
  /\ express5 = FALSE
  /\ routers = {}
  /\ boot = BootNotFollowed
  /\ env = "local"
  /\ \E c \in Configs : cm = [config |-> c, at |-> "new"]
  /\ rp = RpNew
  /\ execLimit = MaxExec
  /\ callLimit = MaxCalls
  /\ poolOk = TRUE
  /\ last = [r \in Reqs |-> NoCall]
  /\ pc = [r \in Reqs |-> "new"]
  /\ path = [r \in Reqs |-> "/nope"]
  /\ reqConn = [r \in Reqs |-> NoConn]
  /\ finishHook = [r \in Reqs |-> FALSE]
  /\ resp = [r \in Reqs |-> NoResp]
  /\ trace = [r \in Reqs |-> <<>>]
  /\ connState = [c \in Conns |-> "free"]
  /\ txn = [c \in Conns |-> "none"]
  /\ acquiredBy = [c \in Conns |-> "none"]
  /\ nAcq = 0
  /\ nRel = 0
  /\ ops = {}
  /\ mgrConn = NoConn
  /\ mgrReqId = "none"
  /\ ModelNew

NextConfig == ConfigConstruct

SpecConfig == InitConfig /\ [][NextConfig]_vars

\* ---------------------------------------------------- the RolesPermissions
PolicyNames == {"reader", "admin"}

RoleNames == {"user", "guest"}

RpActions == {"read", "write"}

RpResources == {"users"}

\* a statement; action and resource are a pattern or an array of patterns,
\* kept as the sequence of the patterns
Statement(e, a, r) == [effect |-> e, action |-> a, resource |-> r]

\* the statements lists handed to addPolicy
StatementLists ==
  { <<Statement("Allow", <<"read">>, <<"users">>)>>,
    <<Statement("Deny", <<"write">>, <<"*">>)>>,
    <<Statement("Deny", <<"write">>, <<"*">>), Statement("Allow", <<"*">>, <<"user?">>)>>,
    <<Statement("Allow", <<"rea?", "write">>, <<"user*">>)>> }

\* new RegExp(`^${regexPattern}$`).test(value) for the regexPattern made of
\* pattern (index.js:414-420): * stands for any text, ? for any one
\* character, $ for itself; a dot is left as it is and stands for any one
\* character too
RECURSIVE RegexTest(_, _)
RegexTest(pattern, value) ==
  IF Len(pattern) = 0 THEN Len(value) = 0
  ELSE LET c == SubSeq(pattern, 1, 1)
           rest == SubSeq(pattern, 2, Len(pattern))
       IN  IF c = "*"
             THEN \E k \in 0 .. Len(value) : RegexTest(rest, SubSeq(value, k + 1, Len(value)))
             ELSE /\ Len(value) > 0
                  /\ c \in {"?", "."} \/ SubSeq(value, 1, 1) = c
                  /\ RegexTest(rest, SubSeq(value, 2, Len(value)))

\* _matchesPattern(pattern, value) (index.js:408-421)
matchesPattern(pattern, value) == \E i \in 1 .. Len(pattern) : RegexTest(pattern[i], value)

\* _matchesStatement(statement, action, resource) (index.js:396-400)
matchesStatement(statement, action, resource) ==
  matchesPattern(statement.action, action) /\ matchesPattern(statement.resource, resource)

\* the value of `for (const statement of policy)` (index.js:379-383): the
\* effect of the first statement that matches, "" when there is none
RECURSIVE FirstMatch(_, _, _)
FirstMatch(policy, action, resource) ==
  IF policy = <<>> THEN ""
  ELSE IF matchesStatement(Head(policy), action, resource) THEN Head(policy).effect
  ELSE FirstMatch(Tail(policy), action, resource)

\* the loop over the attached names (index.js:375-384), which a Set gives
\* in the order they were added: a name that is not in the policies map
\* is passed over, and the first policy with a matching statement decides
RECURSIVE FirstDeciding(_, _, _, _)
FirstDeciding(names, policies, action, resource) ==
  IF names = <<>> THEN ""
  ELSE IF Head(names) \in DOMAIN policies /\ FirstMatch(policies[Head(names)], action, resource) # ""
         THEN FirstMatch(policies[Head(names)], action, resource)
  ELSE FirstDeciding(Tail(names), policies, action, resource)

\* canPerformAction that answers yes on the first matching statement,
\* whatever its effect
canPerformActionAnyEffect(o, roleName, action, resource) ==
  IF ~o.made \/ roleName \notin DOMAIN o.roles THEN FALSE
  ELSE FirstDeciding(o.roles[roleName], o.policies, action, resource) # ""

\* canPerformAction(roleName, action, resource) (index.js:369-387) on the
\* object o
canPerformAction(o, roleName, action, resource) ==
  IF ~o.made \/ roleName \notin DOMAIN o.roles THEN FALSE
  ELSE FirstDeciding(o.roles[roleName], o.policies, action, resource) = "Allow"

restOfRp == <<variant, express5, routers, env, cm, boot, execLimit, callLimit, poolOk, builderVars, callerVars, reqVars, dbVars>>

\* a call of the method op that did not throw
RpCalled(op, changed) == [NoRpCall EXCEPT !.op = op, !.changed = changed]

\* addPolicy(policyName, statements) (index.js:317-319)
AddPolicy(n, st) ==
  /\ rp' = [rp EXCEPT !.policies = [k \in DOMAIN rp.policies \cup {n} |-> IF k = n THEN st ELSE rp.policies[k]],
                      !.call = RpCalled("addPolicy", FALSE)]
  /\ UNCHANGED restOfRp

\* removePolicy(policyName) (index.js:325-327): the name leaves the
\* policies map; the roles are not looked at
RemovePolicy(n) ==
  /\ rp' = [rp EXCEPT !.policies = [k \in DOMAIN rp.policies \ {n} |-> rp.policies[k]],
                      !.call = RpCalled("removePolicy", FALSE)]
  /\ UNCHANGED restOfRp

\* attachPolicyToRole(roleName, policyName) (index.js:334-349)
AttachPolicyToRole(r, n) ==
  /\ IF n \notin DOMAIN rp.policies
       THEN rp' = [rp EXCEPT !.call = [NoRpCall EXCEPT !.op = "attachPolicyToRole", !.threw = TRUE]]
       ELSE LET had == IF r \in DOMAIN rp.roles THEN rp.roles[r] ELSE <<>>
                roles == [k \in DOMAIN rp.roles \cup {r} |-> IF k # r THEN rp.roles[k] ELSE IF n \in Range(had) THEN had ELSE Append(had, n)]
            IN  rp' = [rp EXCEPT !.made = TRUE, !.roles = roles,
                                 !.call = RpCalled("attachPolicyToRole", roles # rp.roles \/ ~rp.made)]
  /\ UNCHANGED restOfRp

\* detachPolicyFromRole(roleName, policyName) (index.js:356-360)
DetachPolicyFromRole(r, n) ==
  /\ IF rp.made /\ r \in DOMAIN rp.roles
       THEN rp' = [rp EXCEPT !.roles = [@ EXCEPT ![r] = SelectSeq(@, LAMBDA k : k # n)],
                            !.call = RpCalled("detachPolicyFromRole", n \in Range(rp.roles[r]))]
       ELSE rp' = [rp EXCEPT !.call = RpCalled("detachPolicyFromRole", FALSE)]
  /\ UNCHANGED restOfRp

\* a call of canPerformAction: what it returns is kept in rp.call
CanPerformAction(r, a, res) ==
  /\ rp' = [rp EXCEPT !.call = [NoRpCall EXCEPT !.op = "canPerformAction", !.role = r, !.action = a, !.resource = res,
                                                 !.result = canPerformAction(rp, r, a, res)]]
  /\ UNCHANGED restOfRp

InitRoles ==
  /\ variant = 1
  /\ express5 = FALSE
  /\ routers = {}
  /\ boot = BootNotFollowed
  /\ env = "local"
  /\ cm = CmNotFollowed
  /\ rp = RpNew
  /\ execLimit = MaxExec
  /\ callLimit = MaxCalls
  /\ poolOk = TRUE
  /\ last = [r \in Reqs |-> NoCall]
  /\ pc = [r \in Reqs |-> "new"]
  /\ path = [r \in Reqs |-> "/nope"]
  /\ reqConn = [r \in Reqs |-> NoConn]
  /\ finishHook = [r \in Reqs |-> FALSE]
  /\ resp = [r \in Reqs |-> NoResp]
  /\ trace = [r \in Reqs |-> <<>>]
  /\ connState = [c \in Conns |-> "free"]
  /\ txn = [c \in Conns |-> "none"]
  /\ acquiredBy = [c \in Conns |-> "none"]
  /\ nAcq = 0
  /\ nRel = 0
  /\ ops = {}
  /\ mgrConn = NoConn
  /\ mgrReqId = "none"
  /\ ModelNew

NextRoles ==
  \/ \E n \in PolicyNames, st \in StatementLists : AddPolicy(n, st)
  \/ \E n \in PolicyNames : RemovePolicy(n)
  \/ \E r \in RoleNames, n \in PolicyNames : AttachPolicyToRole(r, n)
  \/ \E r \in RoleNames, n \in PolicyNames : DetachPolicyFromRole(r, n)
  \/ \E r \in RoleNames, a \in RpActions, res \in RpResources : CanPerformAction(r, a, res)

SpecRoles == InitRoles /\ [][NextRoles]_vars

\* ------------------------------------------------------- pipeline properties
Quiet(r) == pc[r] \in {"done", "hung"}

\* the driver rejected a call made for r
DriverFailed(r) == Range(trace[r]) \cap {"acquire-failed", "begin-failed", "execute-failed", "commit-failed", "rollback-failed"} # {}

IsLifecycle(e) == e \in {"acquire", "begin", "handler", "commit", "rollback", "release"}

Lifecycle(r) == SelectSeq(trace[r], IsLifecycle)

IsPrefix(s, t) == Len(s) <= Len(t) /\ \A i \in 1 .. Len(s) : s[i] = t[i]

\* the position of the first e in t, 0 when there is none
FirstAt(t, e) == IF e \in Range(t) THEN CHOOSE i \in 1 .. Len(t) : t[i] = e /\ \A j \in 1 .. i - 1 : t[j] # e ELSE 0

Count(t, e) == Cardinality({i \in 1 .. Len(t) : t[i] = e})

\* C1: a request that has run to its end (answered and finished, or stuck
\* with nothing left to run) has had as many releases as successful
\* acquisitions, and once all requests have ended the number of successful
\* pool acquisitions equals the number of releases.
C1_AcquiredEqualsReleased ==
  /\ \A r \in Reqs : Quiet(r) => Count(trace[r], "acquire") = Count(trace[r], "release")
  /\ (\A r \in Reqs : Quiet(r)) => nAcq = nRel

\* C3: the lifecycle events of a request occur in the order acquire, begin,
\* handler, commit or rollback, release; a release is preceded by the commit
\* or rollback of the request's transaction.
C3_LifecycleInOrder ==
  \A r \in Reqs :
    \E x \in {"commit", "rollback"} :
      IsPrefix(Lifecycle(r), <<"acquire", "begin", "handler", x, "release">>)

\* C4: a request whose acquisition failed runs no handler, carries no
\* connection, is not left unanswered, and its answer is a 500.
C4_AcquireFailureAnswered500 ==
  \A r \in Reqs :
    "acquire-failed" \in Range(trace[r]) =>
      /\ "handler" \notin Range(trace[r])
      /\ reqConn[r] = NoConn
      /\ pc[r] # "hung"
      /\ resp[r].status \in {0, 500}

\* C5: a request that carries a connection and whose error reached the error
\* middleware (the rollback itself not being refused by the driver) is not
\* left unanswered, and when it has finished its transaction was rolled
\* back, then its connection released, and the answer is the 500 envelope.
C5_ErrorPathRollsBackThenReleases ==
  \A r \in Reqs :
    ("error" \in Range(trace[r]) /\ reqConn[r] # NoConn /\ "rollback-failed" \notin Range(trace[r])) =>
      /\ pc[r] # "hung"
      /\ (pc[r] = "done") =>
           /\ resp[r].status = 500 /\ resp[r].by = "errorMW"
           /\ FirstAt(trace[r], "rollback") > 0
           /\ FirstAt(trace[r], "release") > FirstAt(trace[r], "rollback")

\* a request for which a pool acquisition succeeded has had a release
Released(r) == ("acquire" \in Range(trace[r])) => ("release" \in Range(trace[r]))

Completed(r) == pc[r] = "done" /\ resp[r].status # 0 /\ Released(r)

\* C6: every request that entered the pipeline ends answered, with the
\* connection acquired for it released, when the driver has served every
\* call made for it: such a request with no step left to take has completed.
C6_NoRequestLeftBehind ==
  \A r \in Reqs :
    (pc[r] # "new" /\ ~DriverFailed(r) /\ ~ENABLED Step(r)) => Completed(r)

\* The same as a liveness property, for SpecFair.
EventuallyCompleted == \A r \in Reqs : (pc[r] # "new") ~> (Completed(r) \/ DriverFailed(r))

\* C7: right after an error is raised in a route handler the request stands
\* at the error middleware: the error is neither dropped nor answered
\* elsewhere.
C7_HandlerErrorReachesErrorMW ==
  \A r \in Reqs :
    (trace[r] # <<>> /\ trace[r][Len(trace[r])] = "handler-error") => pc[r] = "errorMW"

\* C8: a request for a path that no mounted router serves runs no handler
\* and, once answered, has the 404 envelope from the last middleware.
C8_UnmatchedAnswered404 ==
  \A r \in Reqs :
    (pc[r] # "new" /\ BasePath(path[r]) \notin routers) =>
      /\ "handler" \notin Range(trace[r])
      /\ resp[r] \in {NoResp, NotFoundResponse}

\* ------------------------------------------------------ builder properties
IsPlaceholder(p) == p.txt = "?"

\* the values the placeholders of a SQL text stand for, in their order
Placeholders(ps) == [i \in 1 .. Len(SelectSeq(ps, IsPlaceholder)) |-> SelectSeq(ps, IsPlaceholder)[i].bind]

\* C9: when execute() calls the connection, the parameter list has as many
\* elements as the SQL has ? placeholders, and the i-th parameter is the
\* value the i-th placeholder stands for.
C9_ParamsMatchPlaceholders ==
  \A i \in 1 .. Len(sent) :
    /\ Len(sent[i].values) = Len(Placeholders(sent[i].sql))
    /\ \A j \in 1 .. Len(sent[i].values) : sent[i].values[j] = Placeholders(sent[i].sql)[j]

\* k terms "table.key = ?" in the key order of the object m, joined by AND
EqualityTerms(m) == JoinStr([i \in 1 .. Len(m) |-> tableName \o "." \o m[i].k \o " = ?"], " AND ")

\* the text of the SQL from its WHERE on has this beginning
WhereBegins(ps, text) == \E w \in 1 .. Len(ps) : \E n \in w .. Len(ps) : ps[w].txt = " WHERE " /\ Text(SubSeq(ps, w, n)) = text

\* C10: login(a, b) on a fresh builder sends exactly
\* SELECT users.* FROM users WHERE users.username = ? AND users.auth_token = ? LIMIT 1;
\* with the parameters [a, b]; and every select sent with k > 0 equality
\* predicates has, from its WHERE on, the k terms "users.key = ?" joined by
\* AND in the key order of the where object, and hands their k values on in
\* that order.
C10_LoginSelect ==
  \A i \in 1 .. Len(sent) :
    /\ (sent[i].by = "login" /\ sent[i].fresh) =>
         /\ Text(sent[i].sql) = "SELECT users.* FROM users WHERE users.username = ? AND users.auth_token = ? LIMIT 1;"
         /\ sent[i].values = <<Scalar(sent[i].args[1]), Scalar(sent[i].args[2])>>
    /\ (sent[i].built.type = "select" /\ Len(sent[i].built.where) > 0) =>
         /\ WhereBegins(sent[i].sql, " WHERE " \o EqualityTerms(sent[i].built.where))
         /\ SubSeq(sent[i].values, Len(sent[i].built.values) + 1, Len(sent[i].built.values) + Len(sent[i].built.where)) = [j \in 1 .. Len(sent[i].built.where) |-> Scalar(sent[i].built.where[j].v)]

\* login("a", "b") on a fresh builder has called the connection
C10_LoginSent == sent # <<>> /\ sent[1].by = "login" /\ sent[1].fresh /\ sent[1].args = <<"a", "b">>

\* insert(data) was called with rows that all have the keys of the first
RowsInserted(q) == q.type = "insert" /\ Len(q.values) >= 1 /\ \A i \in 1 .. Len(q.values) : q.values[i].row /\ Len(q.values[i].v) = Len(q.columns)

\* one tuple per row, the values of the row in column order
ExpectedTuples(q) == [i \in 1 .. Len(q.values) |-> "('" \o JoinStr(q.values[i].v, "','") \o "')"]

\* C11: an insert of N >= 1 rows with the same C keys sends a VALUES list of
\* exactly N tuples, the i-th holding the C values of row i in column
\* order (whatever separates the tuples).
C11_InsertTuples ==
  \A i \in 1 .. Len(sent) :
    RowsInserted(sent[i].built) =>
      sent[i].sql[Len(sent[i].sql) - 1].txt \in {JoinStr(ExpectedTuples(sent[i].built), sep) : sep \in {"", ",", ", "}}

\* C12: once execute() has returned or thrown, the builder's query and its
\* SQL text are those of a fresh builder.
C12_ResetAfterExecute == (mpc \in {"resolved", "rejected"}) => (query = EmptyQuery /\ sql = <<>>)

\* C13: an execute() that follows an execute() with no builder call in
\* between sends nothing of the statement the first one sent, beyond the
\* closing ";".
C13_SecondExecuteSendsNothingAgain ==
  \A i \in 1 .. Len(sent) :
    (sent[i].after \in {"resolved", "rejected"}) =>
      \A j \in 1 .. Len(sent[i].sql) : (sent[i].sql[j] \in Range(sent[i].prior)) => sent[i].sql[j].txt = ";"

\* C14: no update without a where and without a whereIn predicate is ever
\* sent to the connection.
C14_UnguardedUpdateNotSent ==
  \A i \in 1 .. Len(sent) :
    ~(sent[i].built.type = "update" /\ Len(sent[i].built.where) = 0 /\ Len(sent[i].built.whereIn) = 0)

\* the terms a select or update puts after WHERE: one "table.key = ?" per
\* where key, one "column IN (?, ...)" per whereIn call, and in a select one
\* "table.key LIKE ?" per search key
WhereTerms(q) ==
  [i \in 1 .. Len(q.where) |-> tableName \o "." \o q.where[i].k \o " = ?"]
  \o [i \in 1 .. Len(q.whereIn) |-> q.whereIn[i].column \o " IN (" \o JoinStr([j \in 1 .. Len(q.whereIn[i].values) |-> "?"], ", ") \o ")"]
  \o (IF q.type = "select" THEN [i \in 1 .. Len(q.search) |-> tableName \o "." \o q.search[i].k \o " LIKE ?"] ELSE <<>>)

\* C21: a select or update sent with predicates has one stretch of text
\* " WHERE term AND term ...", with every term of the query in it, and no
\* WHERE, no AND and no placeholder of a predicate outside that stretch.
C21_PredicatesJoinedByAnd ==
  \A n \in 1 .. Len(sent) :
    (sent[n].built.type \in {"select", "update"} /\ WhereTerms(sent[n].built) # <<>>) =>
      \E i \in 1 .. Len(sent[n].sql) : \E j \in i .. Len(sent[n].sql) :
        /\ Text(SubSeq(sent[n].sql, i, j)) = " WHERE " \o JoinStr(WhereTerms(sent[n].built), " AND ")
        /\ \A k \in 1 .. Len(sent[n].sql) :
             (k < i \/ k > j) => (sent[n].sql[k].txt \notin {" WHERE ", " AND "} /\ (k > j => sent[n].sql[k].txt # "?"))

\* the clause a join call asks for
JoinText(j) == " " \o j.type \o " JOIN " \o j.table \o " ON " \o j.conditions

\* the columns a join call asks for: those given, or all of the table's
JoinColumns(j) == JoinStr(Qualify(j.table, IF j.argc = 4 THEN j.columns ELSE <<"*">>), ", ")

\* C22: while a select chain's execute() is awaited, the statement sent
\* reads SELECT <projection> FROM <table>, then one clause
\* " <type> JOIN <table> ON <condition>" per join call of the chain in call
\* order, then the rest; and the projection has the columns of every join
\* call.
C22_EveryJoinInSelect ==
  (mpc = "executing" /\ sent[1].by = "execute" /\ sent[1].built.type = "select") =>
    /\ Len(sent[1].sql) > Len(joinCalls)
    /\ Text(SubSeq(sent[1].sql, 1, 1 + Len(joinCalls))) = "SELECT " \o JoinStr(sent[1].built.select, ", ") \o " FROM " \o tableName \o JoinStr([i \in 1 .. Len(joinCalls) |-> JoinText(joinCalls[i])], "")
    /\ \A k \in Len(joinCalls) + 2 .. Len(sent[1].sql) : sent[1].sql[k].txt \notin {JoinText(j) : j \in JoinInputs}
    /\ \A i \in 1 .. Len(joinCalls) : \E c \in 1 .. Len(sent[1].built.select) : sent[1].built.select[c] = JoinColumns(joinCalls[i])

\* the text s begins with the text pre
StartsWith(s, pre) == Len(s) >= Len(pre) /\ SubSeq(s, 1, Len(pre)) = pre

\* where the pieces of a SQL text have a clause beginning with kw
ClauseAt(ps, kw) == {k \in 1 .. Len(ps) : StartsWith(ps[k].txt, kw)}

\* limit or offset was set to an actual value
Supplied(x) == x # Null /\ x[1].js # "undefined"

\* C23: a select sent has an ORDER BY clause exactly when the chain set a
\* column to order by, a LIMIT clause exactly when it set the limit to an
\* actual value and an OFFSET clause exactly when it set the offset to an
\* actual value, each at most once and in the order ORDER BY, LIMIT,
\* OFFSET.
C23_ClausesOnlyWhenSet ==
  \A n \in 1 .. Len(sent) :
    sent[n].built.type = "select" =>
      LET ps == sent[n].sql
          q == sent[n].built
      IN  /\ Cardinality(ClauseAt(ps, " ORDER BY ")) = (IF q.orderBy # "" THEN 1 ELSE 0)
          /\ Cardinality(ClauseAt(ps, " LIMIT ")) = (IF Supplied(q.limit) THEN 1 ELSE 0)
          /\ Cardinality(ClauseAt(ps, " OFFSET ")) = (IF Supplied(q.offset) THEN 1 ELSE 0)
          /\ \A o \in ClauseAt(ps, " ORDER BY "), l \in ClauseAt(ps, " LIMIT ") : o < l
          /\ \A l \in ClauseAt(ps, " LIMIT "), f \in ClauseAt(ps, " OFFSET ") : l < f
          /\ \A o \in ClauseAt(ps, " ORDER BY "), f \in ClauseAt(ps, " OFFSET ") : o < f

\* the places of the stack where x is
PlacesOf(stack, x) == {i \in 1 .. Len(stack) : stack[i] = x}

\* C24: once the startup is over (the server listens, every import of a
\* route module has resolved), every module of the routes directory is in
\* the middleware stack at /<file base name>, before the error handler and
\* the 404 middleware; and no request to a path of a route module is
\* answered by the 404 middleware.
C24_RoutesMountedBeforeFallbacks ==
  (boot.at = "listening" /\ \A f \in RouteFiles : boot.imports[f] = "imported") =>
    /\ \A f \in RouteFiles :
         /\ PlacesOf(boot.stack, "/" \o f) # {}
         /\ \A i \in PlacesOf(boot.stack, "/" \o f), j \in PlacesOf(boot.stack, "errorMW") \cup PlacesOf(boot.stack, "notFound") : i < j
    /\ \A r \in Reqs : (BasePath(path[r]) \in {"/" \o f : f \in RouteFiles} /\ resp[r] # NoResp) => resp[r].by # "notFound"

\* C25: in a production environment the 500s of the error middleware all
\* have one message, whatever the errors they answer; in any other
\* environment the message of a 500 is the message of its error.
C25_ErrorDetailGated ==
  \A r \in Reqs, o \in Reqs :
    (resp[r].by = "errorMW" /\ resp[o].by = "errorMW") =>
      IF env \in Production
        THEN resp[r].body = resp[o].body
        ELSE resp[r].body = resp[r].err

\* C27: every log line written for a caller's acquisition carries the id
\* that caller acquired under, also when the acquisitions of two callers
\* interleave: never the id of the other caller, never a stand-in for a
\* missing id.
C27_LinesTaggedWithOwnId ==
  \A r \in Reqs :
    (last[r].call = "acquireConnection" /\ last[r].arg = r) => last[r].tags \subseteq {r}

\* ----------------------------------------------- RolesPermissions properties
\* the names attached to the role r of the object o
Attached(o, r) == IF o.made /\ r \in DOMAIN o.roles THEN Range(o.roles[r]) ELSE {}

\* a policy that exists now and is attached to the role now has a
\* statement with effect Allow that matches the action and the resource
Granted(o, r, a, res) ==
  \E n \in Attached(o, r) \cap DOMAIN o.policies :
    \E i \in 1 .. Len(o.policies[n]) :
      o.policies[n][i].effect = "Allow" /\ matchesStatement(o.policies[n][i], a, res)

\* C29: canPerformAction returns true only if a policy that exists and is
\* attached to the role at the time of the call has a matching statement
\* with effect Allow; so never for a role with no attachments, and never
\* on the strength of a policy that was removed or detached.
C29_YesOnlyWhenGranted ==
  (rp.call.op = "canPerformAction" /\ rp.call.result) =>
    Granted(rp, rp.call.role, rp.call.action, rp.call.resource)

\* canPerformAction answered no for a role all of whose attachments name
\* policies that were removed
C29_RemovedGrantsNothing ==
  /\ rp.call.op = "canPerformAction"
  /\ ~rp.call.result
  /\ Attached(rp, rp.call.role) # {}
  /\ Attached(rp, rp.call.role) \cap DOMAIN rp.policies = {}

\* C30: an attachPolicyToRole that threw changed no attachment, and every
\* name attached to a role is the name of a policy in the policies map.
C30_AttachedPoliciesExist ==
  /\ (rp.call.op = "attachPolicyToRole" /\ rp.call.threw) => ~rp.call.changed
  /\ \A r \in RoleNames : Attached(rp, r) \subseteq DOMAIN rp.policies

\* ------------------------------------------------ ConfigManager properties
\* a config whose keys are all keys of the schema, each value of the
\* schema's type: an object, not null and not an array, where the schema
\* has an object
RECURSIVE Conforms(_, _)
Conforms(config, schema) ==
  \A k \in DOMAIN config.kids :
    /\ k \in DOMAIN schema.kids
    /\ IF schema.kids[k].kind = "object"
         THEN config.kids[k].kind = "object" /\ Conforms(config.kids[k], schema.kids[k])
         ELSE config.kids[k].kind = schema.kids[k].is

\* C26: the constructor's validation returns for exactly the configs whose
\* keys are all in the schema with values of the schema's types, and throws
\* for every other one.
C26_ValidatesExactlyConforming ==
  cm.at # "new" => (cm.at = "valid" <=> Conforms(cm.config, allowedKeys))

\* ---------------------------------------------- DatabaseManager properties
\* C15: acquireConnection called with no request id throws, having called
\* neither the pool nor the driver, and leaves the manager's bound id and
\* its connection as they were.
C15_NoIdRefused ==
  \A r \in Reqs :
    (last[r].call = "acquireConnection" /\ last[r].arg = "none") =>
      /\ last[r].ended = "threw"
      /\ ~last[r].pool
      /\ last[r].driver = {}
      /\ last[r].conn1 = last[r].conn0
      /\ last[r].id1 = last[r].id0

\* acquireConnection was called with no id while the manager held a
\* connection under a bound id
C15_NoIdWhileBound == \E r \in Reqs : last[r].call = "acquireConnection" /\ last[r].arg = "none" /\ last[r].conn0 # NoConn /\ last[r].id0 # "none"

\* C16: acquireConnection called with a request id returns normally only
\* when it got a connection from the pool.
C16_AcquireFailureReachesCaller ==
  \A r \in Reqs :
    (last[r].call = "acquireConnection" /\ last[r].ended = "returned") => last[r].got # NoConn

GuardedCalls == {"beginTransaction", "commitTransaction", "rollbackTransaction", "release"}

\* C17: beginTransaction, commitTransaction, rollbackTransaction and
\* release, called while the manager holds no connection that is held from
\* the pool, throw, call the driver for nothing, and leave the manager's
\* bound id and its connection as they were.
C17_NoConnectionRefused ==
  \A r \in Reqs :
    (last[r].call \in GuardedCalls /\ ~last[r].held0) =>
      /\ last[r].ended = "threw"
      /\ last[r].driver = {}
      /\ last[r].conn1 = last[r].conn0
      /\ last[r].id1 = last[r].id0

\* C18: an executeQuery entered with an empty #connection, whose
\* acquisition got a connection, sends its statement to that connection.
C18_QueryRunsOnReacquired ==
  \A r \in Reqs :
    (last[r].call = "executeQuery" /\ last[r].conn0 = NoConn /\ last[r].got # NoConn /\ pc[r] \notin {"d-reacquiring", "d-resuming"}) =>
      last[r].on = last[r].got

\* C28: a call entered while #connection is a connection that was released
\* and not acquired again does not act on it: beginTransaction,
\* commitTransaction, rollbackTransaction and release throw with no driver
\* call, and executeQuery goes to the pool and sends its statement only to
\* the connection it got there.
C28_ReleasedConnectionNotUsed ==
  \A r \in Reqs :
    (last[r].call \in GuardedCalls \cup {"executeQuery"} /\ last[r].conn0 # NoConn /\ ~last[r].held0) =>
      IF last[r].call \in GuardedCalls
        THEN last[r].ended = "threw" /\ last[r].driver = {}
        ELSE last[r].pool /\ (last[r].on # NoConn => last[r].on = last[r].got)

\* executeQuery sends a statement the driver rejects once, and throws the
\* driver's error on (the DatabaseManager's half of C19, for SpecDbm).
ManagerThrowsDriverError ==
  \A r \in Reqs :
    (last[r].call = "executeQuery" /\ last[r].driverSaid \in DriverMessages) =>
      /\ last[r].ended = "threw"
      /\ last[r].msg = last[r].driverSaid
      /\ last[r].sends = 1

\* the text e ends with the text m
EndsWith(e, m) == Len(e) >= Len(m) /\ SubSeq(e, Len(e) - Len(m) + 1, Len(e)) = m

\* C19: when the driver rejects the statement of an execute(), the statement
\* was sent once, execute() has thrown, and the error it threw carries the
\* driver's message.
C19_RejectionThrownOnce ==
  (sent # <<>> /\ \E i \in 1 .. Len(sent) : sent[i].answer \in DriverMessages) =>
    /\ Len(sent) = 1
    /\ mpc = "rejected"
    /\ sent[1].thrown # ""
    /\ EndsWith(sent[1].thrown, sent[1].answer)

\* the driver rejected the statement of a login with ER_LOCK_DEADLOCK
C19_LoginRejected == sent # <<>> /\ sent[1].by = "login" /\ sent[1].answer = "ER_LOCK_DEADLOCK" /\ mpc = "rejected"

\* the value the conditions c give the key k
ValueOf(c, k) == LET i == CHOOSE j \in 1 .. Len(c) : c[j].k = k IN c[i].v

HasKey(c, k) == \E j \in 1 .. Len(c) : c[j].k = k

\* the conditions p overwritten by the conditions q: p's keys with q's value
\* where q has the key, then the keys only q has
Overwritten(p, q) ==
  [i \in 1 .. Len(p) |-> IF HasKey(q, p[i].k) THEN Entry(p[i].k, ValueOf(q, p[i].k)) ELSE p[i]]
    \o SelectSeq(q, LAMBDA e : ~HasKey(p, e.k))

\* the equality predicates of a builder
Predicates(q) == {<<q.where[i].k, q.where[i].v>> : i \in 1 .. Len(q.where)}

\* the conditions of two where calls, and the first overwritten by the second
WherePairs == {[p |-> p, q |-> q, r |-> Overwritten(p, q)] : p \in WhereInputs, q \in WhereInputs}

\* C20: from any state of the builder, where(p) followed by where(q) leaves
\* the equality predicates that the one call where(r) leaves, r being p
\* overwritten by q, and no two predicates on one column.
C20_WhereMerges ==
  \A c \in WherePairs :
    LET twice == where(where(query, c.p), c.q)
        once == where(query, c.r)
    IN  /\ twice.where = once.where
        /\ Cardinality(Predicates(twice)) = Len(once.where)
        /\ Cardinality({pr[1] : pr \in Predicates(twice)}) = Len(once.where)

\* two where calls were made on a new builder, the second overwriting
\* auth_token: what they left is what the one where(r) leaves
C20_WhereTwice ==
  /\ nCalls = 2
  /\ query.type = "null"
  /\ query.where = <<Entry("username", "b"), Entry("auth_token", "b")>>
  /\ query = where(EmptyQuery, Overwritten(<<Entry("username", "b"), Entry("auth_token", "a")>>, <<Entry("auth_token", "b")>>))
====
